---- MODULE Spec2Model ----
(***************************************************************************)
(* Resampling, gap detection, explainable-window tagging, calendar         *)
(* matching, scoring and holiday generation of the minute data analyzer    *)
(* (sections.py, fx_holidays.py), and the run command of the calendar      *)
(* builder (core.py).                                                      *)
(*                                                                         *)
(* Instants are whole seconds since 2000-01-01T00:00:00Z (a Saturday);     *)
(* dates are whole days since 2000-01-01.  A configuration text is a       *)
(* sequence of lines; a line records what the scanners' regular            *)
(* expressions can see of it: whether it starts in column 0 (ind = 0), its *)
(* key, and the value captured after the key.                              *)
(***************************************************************************)
EXTENDS Integers, Sequences, FiniteSets, TLC

VARIABLES
    pc,        \* position of the running builder / function under check
    ctx,       \* which builder runs: "common", "gaps", "monthly" or "quarterly"
    cfg_text,  \* the configuration text, a sequence of lines
    year,      \* the report year handed to the builder
    df,        \* the input rows (their datetime_utc), ascending
    tf,        \* runtime timeframe read from the configuration
    bars,      \* resampled bar timestamps
    bar_g,     \* gaps extracted from the bars
    tagged,    \* gaps with their reason
    fx_wins,   \* holiday/custom windows used by the holiday pass
    filtered,  \* the anomalous gaps
    out,       \* what the builder hands on (score inputs, tables)
    ret,       \* result of fx_holiday_windows when called on its own
    cal_df,    \* high-impact calendar events of the year, or none
    calm,      \* result of _match_calendar_high
    score,     \* result of _score_tf: components, total and the locals they come from
    weekly,    \* result of _weekly_windows_for_year when called on its own
    req,       \* the period a monthly / quarterly context was asked for, and the rows handed on
    cb         \* calendar builder (core.py): arguments, configuration, input rows, outputs, files written

vars == <<pc, ctx, cfg_text, year, df, tf, bars, bar_g, tagged, fx_wins, filtered, out, ret,
          cal_df, calm, score, weekly, req, cb>>

-----------------------------------------------------------------------------
(* Sequence helpers *)

RECURSIVE SetToSortedSeq(_)
SetToSortedSeq(S) ==
    IF S = {} THEN <<>>
    ELSE LET m == CHOOSE x \in S : \A y \in S : x <= y
         IN  <<m>> \o SetToSortedSeq(S \ {m})

Range(s) == {s[i] : i \in 1..Len(s)}

RECURSIVE Concat(_)
Concat(ss) == IF ss = <<>> THEN <<>> ELSE Head(ss) \o Concat(Tail(ss))

-----------------------------------------------------------------------------
(* datetime arithmetic: proleptic Gregorian calendar, UTC *)

SecPerDay == 86400

IsLeap(y) == (y % 4 = 0 /\ y % 100 # 0) \/ y % 400 = 0

DaysInMonth(y, m) ==
    IF m = 2 THEN (IF IsLeap(y) THEN 29 ELSE 28)
    ELSE IF m \in {4, 6, 9, 11} THEN 30 ELSE 31

RECURSIVE DaysBeforeMonth(_, _)
DaysBeforeMonth(y, m) ==
    IF m <= 1 THEN 0 ELSE DaysBeforeMonth(y, m - 1) + DaysInMonth(y, m - 1)

\* leap years in 1..y-1
LeapsBefore(y) == ((y - 1) \div 4) - ((y - 1) \div 100) + ((y - 1) \div 400)

\* date(y, m, d) as days since 2000-01-01
DayNo(y, m, d) ==
    365 * (y - 2000) + (LeapsBefore(y) - LeapsBefore(2000))
        + DaysBeforeMonth(y, m) + (d - 1)

\* datetime(y, m, d, hh, mm, ss, tzinfo=UTC)
DateTime(y, m, d, hh, mm, ss) ==
    DayNo(y, m, d) * SecPerDay + hh * 3600 + mm * 60 + ss

\* the constructor raises ValueError outside these ranges
ValidDateTime(y, m, d, hh, mm, ss) ==
    /\ y \in 1..9999
    /\ m \in 1..12
    /\ d >= 1 /\ d <= DaysInMonth(y, m)
    /\ hh \in 0..23 /\ mm \in 0..59 /\ ss \in 0..59

\* date.weekday(): Monday = 0 ... Sunday = 6
Weekday(dn) == (dn + 5) % 7

DayOf(ts) == ts \div SecPerDay

\* Timestamp.year
YearOf(ts) ==
    CHOOSE y \in 1990..2110 :
        DayNo(y, 1, 1) <= DayOf(ts) /\ DayOf(ts) < DayNo(y + 1, 1, 1)

-----------------------------------------------------------------------------
(* fx_holidays.py *)

\* faulty variant: k enters l with the wrong sign
EasterMonthDay_k(y) ==
    LET a == y % 19
        b == y \div 100
        c == y % 100
        d == b \div 4
        e == b % 4
        f == (b + 8) \div 25
        g == (b - f + 1) \div 3
        h == (19 * a + b - d - g + 15) % 30
        i == c \div 4
        k == c % 4
        l == (32 + 2 * e + 2 * i - h + k) % 7
        m == (a + 11 * h + 22 * l) \div 451
    IN  [month |-> (h + l - 7 * m + 114) \div 31,
         day   |-> ((h + l - 7 * m + 114) % 31) + 1]

\* month and day of Easter Sunday
EasterMonthDay(y) ==
    LET a == y % 19
        b == y \div 100
        c == y % 100
        d == b \div 4
        e == b % 4
        f == (b + 8) \div 25
        g == (b - f + 1) \div 3
        h == (19 * a + b - d - g + 15) % 30
        i == c \div 4
        k == c % 4
        l == (32 + 2 * e + 2 * i - h - k) % 7
        m == (a + 11 * h + 22 * l) \div 451
    IN  [month |-> (h + l - 7 * m + 114) \div 31,
         day   |-> ((h + l - 7 * m + 114) % 31) + 1]

_easter_date(y) == DayNo(y, EasterMonthDay(y).month, EasterMonthDay(y).day)

_full_day_utc(dn) == <<dn * SecPerDay, dn * SecPerDay + SecPerDay>>

-----------------------------------------------------------------------------
(* Configuration text.                                                     *)
(*   ind   0 when the line starts in column 0 (regex ^\S), else 1           *)
(*   key   the key the line's regex recognises: "scoring", "ignore",       *)
(*         "fx_holiday_policy", "extra_closures_utc", "runtime" for a bare *)
(*         `key:` header; "mode", "include", "extended", "timeframe",      *)
(*         "weekly_window_utc" for `key: value`; "-" for a quoted list     *)
(*         item; "other" for any other non-empty line                      *)
(*   word  the captured word (mode, extended, timeframe)                   *)
(*   names the items captured between [ ] (include)                        *)
(*   parts the quoted value split on "->", each part stripped              *)
(* A part is what the token regexes can see of it:                         *)
(*   shape "wd"    <word> H:MM or <word> HH:MM (wd = the word)             *)
(*   shape "iso"   dddd-dd-ddTdd:dd:ddZ                                    *)
(*   shape "empty" the empty string, "text" anything else                  *)

Tok(shape, wd, y, mo, d, hh, mm, ss) ==
    [shape |-> shape, wd |-> wd, y |-> y, mo |-> mo, d |-> d,
     hh |-> hh, mm |-> mm, ss |-> ss]
WdTok(wd, hh, mm)          == Tok("wd", wd, 0, 0, 0, hh, mm, 0)
IsoTok(y, mo, d, hh, mm, ss) == Tok("iso", "", y, mo, d, hh, mm, ss)
TextTok                    == Tok("text", "", 0, 0, 0, 0, 0, 0)
EmptyTok                   == Tok("empty", "", 0, 0, 0, 0, 0, 0)

Line(ind, key, word, names, parts) ==
    [ind |-> ind, key |-> key, word |-> word, names |-> names, parts |-> parts]
Hdr(ind, key)        == Line(ind, key, "", {}, <<>>)
KV(ind, key, word)   == Line(ind, key, word, {}, <<>>)
Include(ind, names)  == Line(ind, "include", "", names, <<>>)
Quoted(ind, key, parts) == Line(ind, key, "", {}, parts)

\* re.match(r'^\S', ln)
TopLevel(ln) == ln.ind = 0

\* str.lower() / str.upper() on the words of the vocabulary
Lower(w) ==
    CASE w = "Extended" -> "extended"
      [] w = "EXTENDED" -> "extended"
      [] w = "Minimal"  -> "minimal"
      [] w = "TRUE"     -> "true"
      [] w = "True"     -> "true"
      [] w = "FALSE"    -> "false"
      [] w = "False"    -> "false"
      [] OTHER          -> w

Upper(w) ==
    CASE w = "m1" -> "M1"
      [] w = "m5" -> "M5"
      [] w = "h1" -> "H1"
      [] w = "h4" -> "H4"
      [] OTHER    -> w

\* the section flags both scanners of fx_holidays.py keep, advanced over one
\* line; go = FALSE when the line was consumed by a `continue`
SectionStep(st, ln) ==
    IF ln.key = "scoring" THEN
        [in_scoring |-> TRUE, in_ignore |-> FALSE, in_fx |-> FALSE, go |-> FALSE]
    ELSE
        LET sc == st.in_scoring /\ ~TopLevel(ln)
        IN  IF sc /\ ln.key = "ignore" THEN
                [in_scoring |-> sc, in_ignore |-> TRUE, in_fx |-> FALSE, go |-> FALSE]
            ELSE IF st.in_ignore /\ ln.key = "fx_holiday_policy" THEN
                [in_scoring |-> sc, in_ignore |-> st.in_ignore, in_fx |-> TRUE, go |-> FALSE]
            ELSE
                [in_scoring |-> sc, in_ignore |-> st.in_ignore, in_fx |-> st.in_fx, go |-> TRUE]

NoSection == [in_scoring |-> FALSE, in_ignore |-> FALSE, in_fx |-> FALSE, go |-> FALSE]

\* parse_iso_z: None (ok = FALSE) when the regex fails; raises when the
\* fields are no date-time
parse_iso_z(x) ==
    IF x.shape # "iso" THEN [raised |-> FALSE, ok |-> FALSE, ts |-> 0]
    ELSE IF ~ValidDateTime(x.y, x.mo, x.d, x.hh, x.mm, x.ss)
         THEN [raised |-> TRUE, ok |-> FALSE, ts |-> 0]
         ELSE [raised |-> FALSE, ok |-> TRUE,
               ts |-> DateTime(x.y, x.mo, x.d, x.hh, x.mm, x.ss)]

\* the windows one list item contributes
ItemWindows(ln) ==
    IF Len(ln.parts) # 2 THEN [raised |-> FALSE, wins |-> <<>>]
    ELSE LET st == parse_iso_z(ln.parts[1])
             en == IF st.raised THEN st ELSE parse_iso_z(ln.parts[2])
         IN  IF st.raised \/ en.raised THEN [raised |-> TRUE, wins |-> <<>>]
             ELSE IF st.ok /\ en.ok /\ en.ts > st.ts
                  THEN [raised |-> FALSE, wins |-> << <<st.ts, en.ts>> >>]
                  ELSE [raised |-> FALSE, wins |-> <<>>]

RECURSIVE ExtraScan(_, _, _)
ExtraScan(lines, st, wins) ==
    IF lines = <<>> THEN [raised |-> FALSE, wins |-> wins]
    ELSE LET ln == Head(lines)
             nx == SectionStep(st, ln)
         IN  IF nx.go /\ nx.in_fx /\ ln.key = "-" THEN
                 LET r == ItemWindows(ln)
                 IN  IF r.raised THEN [raised |-> TRUE, wins |-> <<>>]
                     ELSE ExtraScan(Tail(lines), nx, wins \o r.wins)
             ELSE ExtraScan(Tail(lines), nx, wins)

_parse_extra_windows(text) == ExtraScan(text, NoSection, <<>>)

RECURSIVE PolicyScan(_, _, _)
PolicyScan(lines, st, pol) ==
    IF lines = <<>> THEN pol
    ELSE LET ln == Head(lines)
             nx == SectionStep(st, ln)
             p2 == IF ~(nx.go /\ nx.in_fx) THEN pol
                   ELSE IF ln.key = "mode" THEN [pol EXCEPT !.mode = Lower(ln.word)]
                   ELSE IF ln.key = "include"
                        THEN [pol EXCEPT !.include = pol.include \cup ln.names]
                   ELSE IF ln.key = "extended" /\ Lower(ln.word) \in {"true", "false"}
                        THEN [pol EXCEPT !.extended = (Lower(ln.word) = "true")]
                   ELSE pol
         IN  PolicyScan(Tail(lines), nx, p2)

DefaultPolicy == [mode |-> "minimal", include |-> {}, extended |-> FALSE]

\* the policy flags read from the text
FxPolicy(text) == PolicyScan(text, NoSection, DefaultPolicy)

\* faulty variant: extended mode adds its holidays to a configured include list too
EffectiveInclude_always(pol) ==
    (IF pol.include # {} THEN pol.include ELSE {"christmas", "new_year", "good_friday"})
        \cup (IF pol.mode = "extended" \/ pol.extended
              THEN {"boxing_day", "easter_monday"} ELSE {})

\* the include set after defaulting
EffectiveInclude(pol) ==
    IF pol.include # {} THEN pol.include
    ELSE {"christmas", "new_year", "good_friday"}
           \cup (IF pol.mode = "extended" \/ pol.extended
                 THEN {"boxing_day", "easter_monday"} ELSE {})

\* the full-day windows of the named holidays, in the order they are appended
HolidayWindows(y, include) ==
    LET easter == _easter_date(y)
    IN  (IF "good_friday" \in include THEN << _full_day_utc(easter - 2) >> ELSE <<>>)
     \o (IF "easter_monday" \in include THEN << _full_day_utc(easter + 1) >> ELSE <<>>)
     \o (IF "new_year" \in include THEN << _full_day_utc(DayNo(y, 1, 1)) >> ELSE <<>>)
     \o (IF "christmas" \in include THEN << _full_day_utc(DayNo(y, 12, 25)) >> ELSE <<>>)
     \o (IF "boxing_day" \in include THEN << _full_day_utc(DayNo(y, 12, 26)) >> ELSE <<>>)

\* fx_holiday_windows(year, cfg_text): raised = TRUE when it ends in ValueError
fx_holiday_windows(y, text) ==
    LET hol == HolidayWindows(y, EffectiveInclude(FxPolicy(text)))
        ex  == _parse_extra_windows(text)
    IN  IF ex.raised THEN [raised |-> TRUE, wins |-> <<>>]
        ELSE [raised |-> FALSE, wins |-> hol \o ex.wins]

-----------------------------------------------------------------------------
(* sections.py: runtime timeframe, resampling, gap extraction *)

RECURSIVE TimeframeScan(_, _)
TimeframeScan(lines, in_runtime) ==
    IF lines = <<>> THEN "none"
    ELSE LET ln == Head(lines)
         IN  IF ln.key = "runtime" THEN TimeframeScan(Tail(lines), TRUE)
             ELSE IF in_runtime /\ ln.key = "timeframe" THEN Upper(ln.word)
             ELSE TimeframeScan(Tail(lines), in_runtime /\ ~TopLevel(ln))

_read_runtime_timeframe(text) ==
    LET t == TimeframeScan(text, FALSE)
    IN  IF t \in {"M1", "M5", "H1"} THEN t ELSE "M5"

\* nominal bar spacing in seconds
Expect(t) == CASE t = "M1" -> 60 [] t = "M5" -> 300 [] t = "H1" -> 3600

\* label of the right-closed, right-labeled period a row falls in
PeriodLabel(ts, period) == ((ts + period - 1) \div period) * period

\* bar timestamps of _resample_ohlcv(df, tf)
_resample_ohlcv(rows, t) ==
    IF t = "M1" THEN rows
    ELSE SetToSortedSeq({PeriodLabel(rows[i], Expect(t)) : i \in 1..Len(rows)})

\* dsec: diff() of the timestamps, the first filled with the nominal spacing
Dsec(b, t, i) == IF i = 1 THEN Expect(t) ELSE b[i] - b[i - 1]

\* faulty variant: every gap is measured from the first bar
GapRow_first(b, i) ==
    [gap_start |-> b[1], gap_end |-> b[i], delta_sec |-> b[i] - b[1]]

GapRow(b, i) ==
    [gap_start |-> b[i - 1], gap_end |-> b[i], delta_sec |-> b[i] - b[i - 1]]

\* faulty variant: a spacing equal to the nominal one counts as a gap
_bar_gaps_ge(b, t) ==
    IF b = <<>> THEN <<>>
    ELSE LET idx == SetToSortedSeq({i \in 2..Len(b) : Dsec(b, t, i) >= Expect(t)})
         IN  [k \in 1..Len(idx) |-> GapRow(b, idx[k])]

_bar_gaps(b, t) ==
    IF b = <<>> THEN <<>>
    ELSE LET idx == SetToSortedSeq({i \in 1..Len(b) : Dsec(b, t, i) > Expect(t)})
         IN  [k \in 1..Len(idx) |-> GapRow(b, idx[k])]

-----------------------------------------------------------------------------
(* sections.py: explainable windows *)

_overlaps_any(s, e, wins) ==
    \E k \in 1..Len(wins) : s < wins[k][2] /\ e > wins[k][1]

DefaultStartTok == WdTok("Fri", 22, 0)
DefaultEndTok   == WdTok("Sun", 22, 0)

\* the weekly_window entry of _parse_ignore_cfg: the first quoted
\* weekly_window_utc line decides; anything but two non-empty parts keeps
\* the default tokens
WeeklyWindowCfg(text) ==
    LET hits == {i \in 1..Len(text) : text[i].key = "weekly_window_utc"}
    IN  IF hits = {} THEN <<DefaultStartTok, DefaultEndTok>>
        ELSE LET i  == CHOOSE j \in hits : \A h \in hits : j <= h
                 ps == text[i].parts
             IN  IF Len(ps) = 2 /\ \A k \in 1..2 : ps[k].shape # "empty"
                 THEN <<ps[1], ps[2]>>
                 ELSE <<DefaultStartTok, DefaultEndTok>>

dmap(wd) ==
    CASE wd = "Mon" -> 0 [] wd = "Tue" -> 1 [] wd = "Wed" -> 2 [] wd = "Thu" -> 3
      [] wd = "Fri" -> 4 [] wd = "Sat" -> 5 [] wd = "Sun" -> 6

_parse_wd_hhmm(token) ==
    IF token.shape = "wd" /\ token.wd \in {"Mon", "Tue", "Wed", "Thu", "Fri", "Sat", "Sun"}
    THEN [ok |-> TRUE, wd |-> dmap(token.wd), min |-> token.hh * 60 + token.mm]
    ELSE [ok |-> FALSE, wd |-> 0, min |-> 0]

RECURSIVE WeeklyLoop_nowrap(_, _, _, _)
\* faulty variant: an end that is not after the start stays where it is
WeeklyLoop_nowrap(t, stop, st, en) ==
    IF ~(t < stop) THEN <<>>
    ELSE LET week_start == t - Weekday(DayOf(t)) * SecPerDay
             ws  == week_start + st.wd * SecPerDay + st.min * 60
             we  == week_start + en.wd * SecPerDay + en.min * 60
         IN  << <<ws, we>> >> \o WeeklyLoop_nowrap(t + 7 * SecPerDay, stop, st, en)

RECURSIVE WeeklyLoop(_, _, _, _)
WeeklyLoop(t, stop, st, en) ==
    IF ~(t < stop) THEN <<>>
    ELSE LET week_start == t - Weekday(DayOf(t)) * SecPerDay
             ws  == week_start + st.wd * SecPerDay + st.min * 60
             we0 == week_start + en.wd * SecPerDay + en.min * 60
             we  == IF we0 <= ws THEN we0 + 7 * SecPerDay ELSE we0
         IN  << <<ws, we>> >> \o WeeklyLoop(t + 7 * SecPerDay, stop, st, en)

_weekly_windows_for_year(y, start_tok, end_tok) ==
    LET st == _parse_wd_hhmm(start_tok)
        en == _parse_wd_hhmm(end_tok)
    IN  IF ~st.ok \/ ~en.ok THEN <<>>
        ELSE WeeklyLoop(DateTime(y - 1, 12, 25, 0, 0, 0),
                        DateTime(y + 1, 1, 5, 0, 0, 0), st, en)

\* the weekly windows the weekly pass builds: one batch per year in which a
\* gap starts
WeeklyWins(gaps, text) ==
    LET cfg   == WeeklyWindowCfg(text)
        years == SetToSortedSeq({YearOf(gaps[i].gap_start) : i \in 1..Len(gaps)})
    IN  Concat([k \in 1..Len(years) |->
                   _weekly_windows_for_year(years[k], cfg[1], cfg[2])])

NoReason == "None"

_tag_explainable(gaps, text) ==
    IF gaps = <<>> THEN <<>>
    ELSE LET wins == WeeklyWins(gaps, text)
         IN  [i \in 1..Len(gaps) |->
                 [gap_start |-> gaps[i].gap_start, gap_end |-> gaps[i].gap_end,
                  delta_sec |-> gaps[i].delta_sec,
                  reason |-> IF _overlaps_any(gaps[i].gap_start, gaps[i].gap_end, wins)
                             THEN "weekend/closed-hours" ELSE NoReason]]

\* the holiday pass of build_common_blocks / build_gaps_context
HolidayTag(tg, wins) ==
    [i \in 1..Len(tg) |->
        IF tg[i].reason = NoReason /\ _overlaps_any(tg[i].gap_start, tg[i].gap_end, wins)
        THEN [tg[i] EXCEPT !.reason = "holiday"] ELSE tg[i]]

\* the holiday pass on a gap frame without rows: tagged.apply(..., axis=1)
\* then returns a frame instead of a row mask, m.any() is a Series, and
\* `if m.any()` raises ValueError; the pass is skipped when there are no
\* holiday windows
HolidayMaskRaises(tg, wins) == wins # <<>> /\ tg = <<>>

\* faulty variant: the tagged gaps are not filtered out
Anomalous_all(tg) ==
    [k \in 1..Len(tg) |->
        [gap_start |-> tg[k].gap_start, gap_end |-> tg[k].gap_end,
         delta_sec |-> tg[k].delta_sec]]

\* tagged[tagged['reason'].isna()].drop(columns=['reason'])
Anomalous(tg) ==
    LET keep == SetToSortedSeq({i \in 1..Len(tg) : tg[i].reason = NoReason})
    IN  [k \in 1..Len(keep) |->
            [gap_start |-> tg[keep[k]].gap_start, gap_end |-> tg[keep[k]].gap_end,
             delta_sec |-> tg[keep[k]].delta_sec]]

-----------------------------------------------------------------------------
(* Inputs *)

MaxRows  == 3   \* rows of the input series
MaxLines == 3   \* lines appended to a configuration text under scan

\* first timestamps: a Tuesday, a Saturday, Good Friday 2025 (morning and
\* evening), New Year's Eve 2023 (a Sunday, after the weekly close), New
\* Year's Day 2025 (a Wednesday)
Anchors ==
    {DateTime(2024, 12, 17, 10, 0, 0), DateTime(2024, 12, 21, 10, 0, 0),
     DateTime(2025, 4, 18, 8, 0, 0),   DateTime(2025, 4, 18, 21, 0, 0),
     DateTime(2023, 12, 31, 23, 0, 0), DateTime(2025, 1, 1, 1, 0, 0)}

\* spacing of consecutive input rows, seconds
Deltas == {60, 120, 300, 600, 3600, 7200, 518400}

ReportYears == {2024, 2025}

FxBlock == <<Hdr(0, "scoring"), Hdr(1, "ignore"), Hdr(1, "fx_holiday_policy")>>

\* whole configuration texts the builders are run with
Configs ==
    { <<>>,
      <<Hdr(0, "runtime"), KV(1, "timeframe", "M1")>>,
      <<Hdr(0, "runtime"), KV(1, "timeframe", "h1")>> \o FxBlock
          \o <<KV(1, "mode", "extended")>>,
      <<Hdr(0, "scoring"), Hdr(1, "ignore"),
        Quoted(1, "weekly_window_utc", <<WdTok("Friday", 22, 0), WdTok("Sunday", 22, 0)>>)>>,
      <<Hdr(0, "scoring"), Hdr(1, "ignore"),
        Quoted(1, "weekly_window_utc", <<WdTok("Sat", 0, 0), WdTok("Sat", 0, 0)>>)>>,
      FxBlock \o <<Hdr(1, "extra_closures_utc"),
                   Quoted(1, "-", <<TextTok>>),
                   Quoted(1, "-", <<IsoTok(2024, 12, 17, 12, 0, 0), IsoTok(2024, 12, 17, 9, 0, 0)>>),
                   Quoted(1, "-", <<IsoTok(2024, 12, 17, 9, 0, 0), IsoTok(2024, 12, 17, 12, 0, 0)>>)>>,
      FxBlock \o <<Hdr(1, "extra_closures_utc"),
                   Quoted(1, "-", <<IsoTok(2025, 13, 1, 0, 0, 0), IsoTok(2025, 13, 2, 0, 0, 0)>>),
                   Quoted(1, "-", <<IsoTok(2024, 12, 17, 9, 0, 0), IsoTok(2024, 12, 17, 12, 0, 0)>>)>>,
      FxBlock \o <<KV(1, "mode", "extended"), Include(1, {"christmas"})>> }

-----------------------------------------------------------------------------
(* build_common_blocks / build_gaps_context, step by step *)

MaxDelta(gs) ==
    IF gs = <<>> THEN 0
    ELSE CHOOSE m \in {gs[i].delta_sec : i \in 1..Len(gs)} :
            \A i \in 1..Len(gs) : gs[i].delta_sec <= m

\* filtered.sort_values('gap_start')
SortByStart(gs) ==
    LET starts == SetToSortedSeq({gs[i].gap_start : i \in 1..Len(gs)})
    IN  [k \in 1..Len(starts) |->
            gs[CHOOSE i \in 1..Len(gs) : gs[i].gap_start = starts[k]]]

NoOut == [scored |-> <<>>, longest_sec |-> 0, dur_max |-> 0,
          sessions |-> <<>>, monthly |-> <<>>, full_list |-> <<>>]

\* what build_common_blocks derives from the gaps it keeps
CommonOut(flt) ==
    [scored      |-> flt,
     longest_sec |-> MaxDelta(flt),
     dur_max     |-> MaxDelta(flt),
     sessions    |-> [k \in 1..Len(flt) |-> flt[k].gap_start],
     monthly     |-> [k \in 1..Len(flt) |-> flt[k].gap_start],
     full_list   |-> <<>>]

\* what build_gaps_context derives from the gaps it keeps
GapsOut(flt) ==
    [scored      |-> <<>>,
     longest_sec |-> 0,
     dur_max     |-> 0,
     sessions    |-> [k \in 1..Len(flt) |-> flt[k].gap_start],
     monthly     |-> <<>>,
     full_list   |-> SortByStart(flt)]

\* the caller extends the input series by one row
AddRow ==
    /\ pc = "input"
    /\ Len(df) < MaxRows
    /\ \E ts \in (IF df = <<>> THEN Anchors ELSE {df[Len(df)] + d : d \in Deltas}) :
           df' = Append(df, ts)
    /\ UNCHANGED <<pc, ctx, cfg_text, year, tf, bars, bar_g, tagged, fx_wins, filtered, out, ret, cal_df, calm, score, weekly, req, cb>>

\* entry of a builder: configuration text, timeframe, bars, gaps
ReadInputs ==
    /\ pc = "input"
    /\ \E c \in Configs, b \in {"common", "gaps"} :
           /\ cfg_text' = c
           /\ ctx' = b
           /\ tf' = _read_runtime_timeframe(c)
           /\ bars' = _resample_ohlcv(df, _read_runtime_timeframe(c))
           /\ bar_g' = _bar_gaps(_resample_ohlcv(df, _read_runtime_timeframe(c)),
                                 _read_runtime_timeframe(c))
    /\ pc' = "gaps"
    /\ UNCHANGED <<year, df, tagged, fx_wins, filtered, out, ret, cal_df, calm, score, weekly, req, cb>>

WeeklyPass ==
    /\ pc = "gaps"
    /\ tagged' = _tag_explainable(bar_g, cfg_text)
    /\ pc' = "weekly"
    /\ UNCHANGED <<ctx, cfg_text, year, df, tf, bars, bar_g, fx_wins, filtered, out, ret, cal_df, calm, score, weekly, req, cb>>

\* try: fx_holiday_windows(year, cfg_text) except Exception: []
FxWinsOrEmpty(y, text) ==
    LET r == fx_holiday_windows(y, text) IN IF r.raised THEN <<>> ELSE r.wins

HolidayPass ==
    /\ pc = "weekly"
    /\ fx_wins' = FxWinsOrEmpty(year, cfg_text)
    /\ IF HolidayMaskRaises(tagged, FxWinsOrEmpty(year, cfg_text))
       THEN /\ tagged' = tagged
            /\ pc' = "raised"
       ELSE /\ tagged' = HolidayTag(tagged, FxWinsOrEmpty(year, cfg_text))
            /\ pc' = "holiday"
    /\ UNCHANGED <<ctx, cfg_text, year, df, tf, bars, bar_g, filtered, out, ret, cal_df, calm, score, weekly, req, cb>>

Filter ==
    /\ pc = "holiday"
    /\ filtered' = Anomalous(tagged)
    /\ pc' = "filtered"
    /\ UNCHANGED <<ctx, cfg_text, year, df, tf, bars, bar_g, tagged, fx_wins, out, ret, cal_df, calm, score, weekly, req, cb>>

Outputs ==
    /\ pc = "filtered"
    /\ out' = IF ctx = "common" THEN CommonOut(filtered) ELSE GapsOut(filtered)
    /\ pc' = "done"
    /\ UNCHANGED <<ctx, cfg_text, year, df, tf, bars, bar_g, tagged, fx_wins, filtered, ret, cal_df, calm, score, weekly, req, cb>>

NoRet == [raised |-> FALSE, wins |-> <<>>, easter |-> 0]

\* _load_calendar_df found no file (or could not read it)
NoCal == [none |-> TRUE, ts |-> <<>>]

NoCalm == [out |-> <<>>, total_high_events |-> 0, matched_high_events |-> 0,
           coverage |-> [n |-> 0, d |-> 1]]

NoScore == [total |-> [n |-> 0, d |-> 1]]

\* _weekly_windows_for_year has not been called on its own
NoWeekly == [start_tok |-> EmptyTok, end_tok |-> EmptyTok, wins |-> <<>>]

\* no monthly / quarterly context has been asked for
NoReq == [kind |-> "none", period |-> 0, rows |-> <<>>]

\* the calendar builder has not been started
NoCb == [log |-> <<>>]

\* the analyzer's state before a run has started
AnalyzerIdle ==
    /\ ctx = "common"
    /\ df = <<>>
    /\ tf = "M5"
    /\ bars = <<>>
    /\ bar_g = <<>>
    /\ tagged = <<>>
    /\ fx_wins = <<>>
    /\ filtered = <<>>
    /\ out = NoOut
    /\ ret = NoRet
    /\ cal_df = NoCal
    /\ calm = NoCalm
    /\ score = NoScore
    /\ weekly = NoWeekly
    /\ req = NoReq

\* everything but pc, cfg_text and year before a run has started
Idle == AnalyzerIdle /\ cb = NoCb

Init ==
    /\ pc = "input"
    /\ cfg_text = <<>>
    /\ year \in ReportYears
    /\ Idle

Next == AddRow \/ ReadInputs \/ WeeklyPass \/ HolidayPass \/ Filter \/ Outputs

Spec == Init /\ [][Next]_vars

-----------------------------------------------------------------------------
(* _read_runtime_timeframe on its own, over configuration texts built line *)
(* by line                                                                 *)

TfVocab ==
    {Hdr(0, "runtime"), Hdr(1, "runtime"), Hdr(0, "other"), Hdr(1, "other")}
      \cup {KV(i, "timeframe", w) : i \in {0, 1}, w \in {"M1", "h1", "H4"}}

AppendTfLine ==
    /\ pc = "text"
    /\ Len(cfg_text) < MaxLines
    /\ \E ln \in TfVocab : cfg_text' = Append(cfg_text, ln)
    /\ UNCHANGED <<pc, ctx, year, df, tf, bars, bar_g, tagged, fx_wins, filtered, out, ret, cal_df, calm, score, weekly, req, cb>>

ReadTimeframe ==
    /\ pc = "text"
    /\ tf' = _read_runtime_timeframe(cfg_text)
    /\ pc' = "tf_done"
    /\ UNCHANGED <<ctx, cfg_text, year, df, bars, bar_g, tagged, fx_wins, filtered, out, ret, cal_df, calm, score, weekly, req, cb>>

InitTf ==
    /\ pc = "text"
    /\ cfg_text = <<>>
    /\ year \in ReportYears
    /\ Idle

NextTf == AppendTfLine \/ ReadTimeframe

SpecTf == InitTf /\ [][NextTf]_vars

-----------------------------------------------------------------------------
(* fx_holiday_windows on its own: policy lines appended to an open          *)
(* scoring / ignore / fx_holiday_policy block                              *)

FxYears == {2000, 2024, 2025}

FxVocab ==
    {KV(1, "mode", "extended"), KV(1, "mode", "Minimal"),
     Include(1, {"christmas"}), Include(1, {}),
     KV(1, "extended", "true"), KV(1, "extended", "False"),
     Quoted(1, "-", <<TextTok>>),
     Quoted(1, "-", <<IsoTok(2025, 3, 1, 0, 0, 0), IsoTok(2025, 3, 2, 0, 0, 0)>>),
     Quoted(1, "-", <<IsoTok(2025, 3, 2, 0, 0, 0), IsoTok(2025, 3, 2, 0, 0, 0)>>),
     Quoted(1, "-", <<IsoTok(2025, 3, 1, 25, 0, 0), IsoTok(2025, 3, 2, 0, 0, 0)>>),
     Hdr(0, "other"), Hdr(0, "scoring")}

AppendFxLine ==
    /\ pc = "text"
    /\ Len(cfg_text) < Len(FxBlock) + MaxLines
    /\ \E ln \in FxVocab : cfg_text' = Append(cfg_text, ln)
    /\ UNCHANGED <<pc, ctx, year, df, tf, bars, bar_g, tagged, fx_wins, filtered, out, ret, cal_df, calm, score, weekly, req, cb>>

CallFx ==
    /\ pc = "text"
    /\ ret' = [raised |-> fx_holiday_windows(year, cfg_text).raised,
               wins   |-> fx_holiday_windows(year, cfg_text).wins,
               easter |-> _easter_date(year)]
    /\ pc' = "fx_done"
    /\ UNCHANGED <<ctx, cfg_text, year, df, tf, bars, bar_g, tagged, fx_wins, filtered, out, cal_df, calm, score, weekly, req, cb>>

InitFx ==
    /\ pc = "text"
    /\ cfg_text = FxBlock
    /\ year \in FxYears
    /\ Idle

NextFx == AppendFxLine \/ CallFx

SpecFx == InitFx /\ [][NextFx]_vars

-----------------------------------------------------------------------------
(* Properties *)

\* the builder has extracted the gaps
Extracted == pc \in {"gaps", "weekly", "holiday", "filtered", "done"}
\* the weekly pass has run and the holiday pass has not
AfterWeekly == pc = "weekly"
\* both passes have run
AfterHoliday == pc \in {"holiday", "filtered", "done"}

\* nominal spacing as the specification states it
Nominal == IF tf = "M1" THEN 60 ELSE IF tf = "M5" THEN 300 ELSE 3600

\* adjacent bar pairs further apart than the nominal spacing
WidePairs == {i \in 2..Len(bars) : bars[i] - bars[i - 1] > Nominal}

\* C1: _bar_gaps emits a gap for the adjacent pair (i-1, i) exactly when
\* timestamp[i] - timestamp[i-1] is strictly greater than the nominal
\* spacing; uniform nominal spacing gives no gap, the first bar gives no
\* gap, and an empty series gives an empty list.
C1_GapIffSpacingExceedsNominal ==
    Extracted =>
        /\ \A i \in 2..Len(bars) :
              (i \in WidePairs) <=>
                  (\E k \in 1..Len(bar_g) :
                      /\ bar_g[k].gap_start = bars[i - 1]
                      /\ bar_g[k].gap_end = bars[i])
        /\ Len(bar_g) = Cardinality(WidePairs)
        /\ \A k \in 1..Len(bar_g) :
              \E i \in 2..Len(bars) :
                  bar_g[k].gap_start = bars[i - 1] /\ bar_g[k].gap_end = bars[i]
        /\ (\A i \in 2..Len(bars) : bars[i] - bars[i - 1] = Nominal) => bar_g = <<>>
        /\ bars = <<>> => bar_g = <<>>

\* C1 witness: three bars, one spacing nominal and one twice nominal, one gap
C1_Witness ==
    /\ Extracted
    /\ Len(bars) = 3
    /\ bars[2] - bars[1] = Nominal
    /\ bars[3] - bars[2] = 2 * Nominal
    /\ Len(bar_g) = 1
    /\ bar_g[1].delta_sec = 2 * Nominal

-----------------------------------------------------------------------------
(* The recurring weekly closed window, stated without the per-year batches *)
(* of the weekly pass: week w is the Monday-based week starting on day     *)
(* 7w + 2 (2000-01-03 was a Monday).                                       *)

WeeklyOccurrence(w, st, en) ==
    LET week_start == (7 * w + 2) * SecPerDay
        ws  == week_start + st.wd * SecPerDay + st.min * 60
        we0 == week_start + en.wd * SecPerDay + en.min * 60
    IN  <<ws, IF we0 <= ws THEN we0 + 7 * SecPerDay ELSE we0>>

OverlapsWeekly(s, e, st, en) ==
    \E w \in (DayOf(s) \div 7 - 2)..(DayOf(e) \div 7 + 1) :
        s < WeeklyOccurrence(w, st, en)[2] /\ e > WeeklyOccurrence(w, st, en)[1]

CfgStart == _parse_wd_hhmm(WeeklyWindowCfg(cfg_text)[1])
CfgEnd   == _parse_wd_hhmm(WeeklyWindowCfg(cfg_text)[2])
WeeklyParsable == CfgStart.ok /\ CfgEnd.ok

\* C2: after the weekly pass a gap is tagged weekend/closed-hours exactly
\* when its interval overlaps some occurrence of the configured weekly
\* window, whatever year the occurrence lies in.
C2_WeeklyPassTagsEveryOverlap ==
    (AfterWeekly /\ WeeklyParsable) =>
        \A i \in 1..Len(tagged) :
            (tagged[i].reason = "weekend/closed-hours") <=>
                OverlapsWeekly(tagged[i].gap_start, tagged[i].gap_end, CfgStart, CfgEnd)

\* the same for the gaps that end in the year they start in (kept to tell
\* what part of C2 the code meets)
C2_SameYearGapsTagged ==
    (AfterWeekly /\ WeeklyParsable) =>
        \A i \in 1..Len(tagged) :
            YearOf(tagged[i].gap_start) = YearOf(tagged[i].gap_end) =>
                ((tagged[i].reason = "weekend/closed-hours") <=>
                    OverlapsWeekly(tagged[i].gap_start, tagged[i].gap_end, CfgStart, CfgEnd))

-----------------------------------------------------------------------------

GapOf(g) == [gap_start |-> g.gap_start, gap_end |-> g.gap_end, delta_sec |-> g.delta_sec]

\* C3: the weekly pass runs before the holiday pass and is not overwritten:
\* after both passes a gap that overlaps both a weekly window and a holiday
\* window carries weekend/closed-hours, never holiday.
C3_WeeklyBeatsHoliday ==
    (AfterHoliday /\ WeeklyParsable) =>
        \A i \in 1..Len(tagged) :
            (/\ OverlapsWeekly(tagged[i].gap_start, tagged[i].gap_end, CfgStart, CfgEnd)
             /\ _overlaps_any(tagged[i].gap_start, tagged[i].gap_end, fx_wins))
                => tagged[i].reason = "weekend/closed-hours"

\* the part of C3 about the order of the passes alone: a reason, once
\* assigned, is kept by every later step
C3_ReasonKept ==
    [][\A i \in 1..Len(tagged) :
          tagged[i].reason # NoReason =>
              (Len(tagged') = Len(tagged) /\ tagged'[i].reason = tagged[i].reason)]_vars

\* calendar years from the first bar to the last
SpannedYears ==
    IF bars = <<>> THEN {} ELSE YearOf(bars[1])..YearOf(bars[Len(bars)])

ConfiguredHolidays(y) == HolidayWindows(y, EffectiveInclude(FxPolicy(cfg_text)))

\* C4: in the holiday pass every gap the weekly pass left untagged that
\* overlaps a configured holiday window of any calendar year the bars span
\* is tagged holiday.  (Stated for configurations whose extra closures the
\* generator reads without raising.)
C4_HolidayOfAnySpannedYear ==
    (AfterHoliday /\ ~fx_holiday_windows(year, cfg_text).raised) =>
        \A i \in 1..Len(tagged) :
            (/\ tagged[i].reason # "weekend/closed-hours"
             /\ \E y \in SpannedYears :
                    _overlaps_any(tagged[i].gap_start, tagged[i].gap_end,
                                  ConfiguredHolidays(y)))
                => tagged[i].reason = "holiday"

\* the same for the windows of the report year alone (kept to tell what
\* part of C4 the code meets)
C4_HolidayOfReportYear ==
    (AfterHoliday /\ ~fx_holiday_windows(year, cfg_text).raised) =>
        \A i \in 1..Len(tagged) :
            (/\ tagged[i].reason # "weekend/closed-hours"
             /\ _overlaps_any(tagged[i].gap_start, tagged[i].gap_end,
                              ConfiguredHolidays(year)))
                => tagged[i].reason = "holiday"

AnomalousSet == {GapOf(tagged[i]) : i \in {j \in 1..Len(tagged) : tagged[j].reason = NoReason}}

IsLongest(n, S) ==
    IF S = {} THEN n = 0
    ELSE (\E g \in S : g.delta_sec = n) /\ (\A g \in S : g.delta_sec <= n)

\* C5: after both passes every gap is weekend/closed-hours, holiday or
\* anomalous (no reason), and exactly the anomalous gaps reach _score_tf
\* and the duration, session, monthly and full-list outputs; the longest
\* gap used for completeness is the longest anomalous gap.
C5_OnlyAnomalousScored ==
    /\ AfterHoliday =>
          /\ Len(tagged) = Len(bar_g)
          /\ \A i \in 1..Len(tagged) :
                /\ GapOf(tagged[i]) = bar_g[i]
                /\ tagged[i].reason \in {"weekend/closed-hours", "holiday", NoReason}
    /\ (pc = "done" /\ ctx = "common") =>
          /\ Range(out.scored) = AnomalousSet
          /\ Len(out.scored) = Cardinality(AnomalousSet)
          /\ IsLongest(out.longest_sec, AnomalousSet)
          /\ IsLongest(out.dur_max, AnomalousSet)
          /\ Range(out.sessions) = {g.gap_start : g \in AnomalousSet}
          /\ Range(out.monthly) = {g.gap_start : g \in AnomalousSet}
    /\ (pc = "done" /\ ctx = "gaps") =>
          /\ Range(out.full_list) = AnomalousSet
          /\ Len(out.full_list) = Cardinality(AnomalousSet)
          /\ Range(out.sessions) = {g.gap_start : g \in AnomalousSet}

\* C5 witness: a scored series with a 10-minute anomalous gap and a longer
\* gap tagged weekend/closed-hours that does not enter the longest-gap value
C5_Witness ==
    /\ pc = "done" /\ ctx = "common"
    /\ Len(tagged) = 2
    /\ tagged[1].reason = NoReason
    /\ tagged[2].reason = "weekend/closed-hours"
    /\ tagged[2].delta_sec > tagged[1].delta_sec
    /\ out.longest_sec = tagged[1].delta_sec
    /\ Len(out.scored) = 1

\* extra closures of the policy block that are well formed and valid
ValidExtras ==
    {<<DateTime(p[1].y, p[1].mo, p[1].d, p[1].hh, p[1].mm, p[1].ss),
       DateTime(p[2].y, p[2].mo, p[2].d, p[2].hh, p[2].mm, p[2].ss)>> :
        p \in {cfg_text[i].parts : i \in
                {j \in 1..Len(cfg_text) :
                    /\ cfg_text[j].key = "-"
                    /\ Len(cfg_text[j].parts) = 2
                    /\ \A k \in 1..2 :
                         /\ cfg_text[j].parts[k].shape = "iso"
                         /\ LET x == cfg_text[j].parts[k]
                            IN  ValidDateTime(x.y, x.mo, x.d, x.hh, x.mm, x.ss)
                    /\ LET a == cfg_text[j].parts[1]
                           b == cfg_text[j].parts[2]
                       IN  DateTime(b.y, b.mo, b.d, b.hh, b.mm, b.ss)
                             > DateTime(a.y, a.mo, a.d, a.hh, a.mm, a.ss)}}}

\* some extra-closure entry is text the ISO pattern accepts but no date-time
HasImpossibleEntry ==
    \E j \in 1..Len(cfg_text) :
        /\ cfg_text[j].key = "-"
        /\ \E k \in 1..Len(cfg_text[j].parts) :
              /\ cfg_text[j].parts[k].shape = "iso"
              /\ LET x == cfg_text[j].parts[k]
                 IN  ~ValidDateTime(x.y, x.mo, x.d, x.hh, x.mm, x.ss)

ExpectedFxWindows == Range(ConfiguredHolidays(year)) \cup ValidExtras

\* C8: an invalid or malformed extra-closure entry is skipped: the holiday
\* pass still works with every configured holiday window and every valid
\* extra closure, and tags the gaps they overlap.  (Stated for runs with at
\* least one gap.)
C8_BadExtraClosureSkipped ==
    (AfterHoliday /\ tagged # <<>>) =>
        /\ ExpectedFxWindows \subseteq Range(fx_wins)
        /\ \A i \in 1..Len(tagged) :
              (/\ tagged[i].reason # "weekend/closed-hours"
               /\ \E w \in ExpectedFxWindows :
                      tagged[i].gap_start < w[2] /\ tagged[i].gap_end > w[1])
                  => tagged[i].reason = "holiday"

\* the same for texts whose bad entries are not ISO-shaped impossible dates
\* (kept to tell what part of C8 the code meets)
C8_MalformedEntrySkipped ==
    (AfterHoliday /\ ~HasImpossibleEntry) =>
        /\ ExpectedFxWindows = Range(fx_wins)
        /\ \A i \in 1..Len(tagged) :
              (/\ tagged[i].reason # "weekend/closed-hours"
               /\ \E w \in ExpectedFxWindows :
                      tagged[i].gap_start < w[2] /\ tagged[i].gap_end > w[1])
                  => tagged[i].reason = "holiday"

\* Friday 22:00 and Sunday 22:00 as (weekday, minute of day)
FridayClose == [ok |-> TRUE, wd |-> 4, min |-> 1320]
SundayOpen  == [ok |-> TRUE, wd |-> 6, min |-> 1320]

\* C9: with a weekly-window token that cannot be parsed the weekly pass
\* falls back to Friday 22:00 -> Sunday 22:00, so a gap overlapping that
\* window is still tagged weekend/closed-hours.  (Stated for gaps that end
\* in the year they start in.)
C9_UnparsableTokenFallsBack ==
    (AfterWeekly /\ ~WeeklyParsable) =>
        \A i \in 1..Len(tagged) :
            (/\ YearOf(tagged[i].gap_start) = YearOf(tagged[i].gap_end)
             /\ OverlapsWeekly(tagged[i].gap_start, tagged[i].gap_end,
                               FridayClose, SundayOpen))
                => tagged[i].reason = "weekend/closed-hours"

-----------------------------------------------------------------------------
(* fx_holiday_windows: reference dates *)

FullDay(y, m, d) == <<DateTime(y, m, d, 0, 0, 0), DateTime(y, m, d, 0, 0, 0) + 86400>>

\* Easter Sunday, Good Friday and Easter Monday of the reference years
RefEaster(y) ==
    CASE y = 2000 -> <<2000, 4, 23>> [] y = 2024 -> <<2024, 3, 31>> [] y = 2025 -> <<2025, 4, 20>>
RefGoodFriday(y) ==
    CASE y = 2000 -> <<2000, 4, 21>> [] y = 2024 -> <<2024, 3, 29>> [] y = 2025 -> <<2025, 4, 18>>
RefEasterMonday(y) ==
    CASE y = 2000 -> <<2000, 4, 24>> [] y = 2024 -> <<2024, 4, 1>> [] y = 2025 -> <<2025, 4, 21>>

GoodFridayWindow(y)   == FullDay(RefGoodFriday(y)[1], RefGoodFriday(y)[2], RefGoodFriday(y)[3])
EasterMondayWindow(y) == FullDay(RefEasterMonday(y)[1], RefEasterMonday(y)[2], RefEasterMonday(y)[3])

Returned == pc = "fx_done" /\ ~ret.raised

\* the policy values the generator works with
Pol == FxPolicy(cfg_text)
ExtendedOn == Pol.mode = "extended" \/ Pol.extended

\* the windows of the named holidays: the result without the extra closures
\* appended to it
NamedWindows ==
    {ret.wins[k] : k \in 1..(Len(ret.wins) - Len(_parse_extra_windows(cfg_text).wins))}

\* C6: _easter_date gives Easter Sunday of the reference years (2000-04-23,
\* 2024-03-31, 2025-04-20), a Sunday, and the generator puts the Good Friday
\* window two days before it and the Easter Monday window one day after it.
C6_EasterReferenceYears ==
    /\ pc = "fx_done" =>
          /\ ret.easter = DayNo(RefEaster(year)[1], RefEaster(year)[2], RefEaster(year)[3])
          /\ Weekday(ret.easter) = 6
    /\ (Returned /\ Pol.include = {}) =>
          /\ GoodFridayWindow(year) \in Range(ret.wins)
          /\ GoodFridayWindow(year)[1] = (ret.easter - 2) * 86400
          /\ ExtendedOn =>
                /\ EasterMondayWindow(year) \in Range(ret.wins)
                /\ EasterMondayWindow(year)[1] = (ret.easter + 1) * 86400

\* C6 witness: the generator has run for 2025 in extended mode
C6_Witness ==
    /\ Returned
    /\ year = 2025
    /\ ret.easter = DayNo(2025, 4, 20)
    /\ FullDay(2025, 4, 18) \in Range(ret.wins)
    /\ FullDay(2025, 4, 21) \in Range(ret.wins)

BaseHolidays     == {FullDay(year, 12, 25), FullDay(year, 1, 1), GoodFridayWindow(year)}
ExtendedHolidays == {FullDay(year, 12, 26), EasterMondayWindow(year)}

NamedHoliday(h) ==
    CASE h = "christmas"     -> {FullDay(year, 12, 25)}
      [] h = "new_year"      -> {FullDay(year, 1, 1)}
      [] h = "good_friday"   -> {GoodFridayWindow(year)}
      [] h = "boxing_day"    -> {FullDay(year, 12, 26)}
      [] h = "easter_monday" -> {EasterMondayWindow(year)}
      [] OTHER               -> {}

\* C7 as stated: with no include list the named windows are Christmas, New
\* Year and Good Friday, plus Boxing Day and Easter Monday when the mode is
\* extended; and whenever the mode is extended the Boxing Day and Easter
\* Monday windows are part of the result.
C7_ExtendedModeAlwaysAdds ==
    Returned =>
        /\ Pol.include = {} =>
              NamedWindows = BaseHolidays
                  \cup (IF Pol.mode = "extended" THEN ExtendedHolidays ELSE {})
        /\ Pol.mode = "extended" => ExtendedHolidays \subseteq Range(ret.wins)

\* C7 amended: with no include list the named windows are the full UTC days
\* of Christmas, New Year and Good Friday, plus Boxing Day and Easter Monday
\* when the mode is extended or the extended flag is true; with an include
\* list the named windows are those of the listed holidays only, whatever
\* the mode.
C7_DefaultHolidaySet ==
    Returned =>
        /\ Pol.include = {} =>
              /\ NamedWindows = BaseHolidays
                    \cup (IF ExtendedOn THEN ExtendedHolidays ELSE {})
              /\ Len(ret.wins) - Len(_parse_extra_windows(cfg_text).wins)
                    = (IF ExtendedOn THEN 5 ELSE 3)
        /\ Pol.include # {} =>
              NamedWindows = UNION {NamedHoliday(h) : h \in Pol.include}
        /\ \A w \in NamedWindows : w[1] % 86400 = 0 /\ w[2] = w[1] + 86400

\* C7 witness: no include list, extended mode, five named windows returned
C7_Witness ==
    /\ Returned
    /\ Pol.include = {}
    /\ Pol.mode = "extended"
    /\ Cardinality(NamedWindows) = 5
    /\ ExtendedHolidays \subseteq Range(ret.wins)

-----------------------------------------------------------------------------
(* _read_runtime_timeframe *)

\* line i lies inside a runtime section: it is indented, and so is every
\* line between it and the nearest runtime header before it
InRuntimeSection(i) ==
    /\ cfg_text[i].ind > 0
    /\ \E j \in 1..(i - 1) :
          /\ cfg_text[j].key = "runtime"
          /\ \A k \in (j + 1)..(i - 1) : cfg_text[k].ind > 0

RuntimeTimeframeLines ==
    {i \in 1..Len(cfg_text) : cfg_text[i].key = "timeframe" /\ InRuntimeSection(i)}

UpperCased(w) ==
    IF w \in {"M1", "m1"} THEN "M1"
    ELSE IF w \in {"M5", "m5"} THEN "M5"
    ELSE IF w \in {"H1", "h1"} THEN "H1" ELSE "unsupported"

\* C10: the result is the upper-cased timeframe of the runtime section when
\* that is M1, M5 or H1, and M5 in every other case (no runtime section, no
\* timeframe key in it, unsupported token).
C10_TimeframeOfRuntimeSection ==
    pc = "tf_done" =>
        /\ tf \in {"M1", "M5", "H1"}
        /\ tf = IF RuntimeTimeframeLines = {} THEN "M5"
                ELSE LET i == CHOOSE j \in RuntimeTimeframeLines :
                                  \A h \in RuntimeTimeframeLines : j <= h
                         v == UpperCased(cfg_text[i].word)
                     IN  IF v = "unsupported" THEN "M5" ELSE v

\* the part of C10 the code meets on every text
C10_AlwaysSupported == pc = "tf_done" => tf \in {"M1", "M5", "H1"}

-----------------------------------------------------------------------------
(* _resample_ohlcv on whole rows.  A row is its datetime_utc and its        *)
(* open, high, low, close, volume; prices and volumes are whole numbers    *)
(* and never missing.                                                      *)

Row(ts, o, h, l, c, v) ==
    [datetime_utc |-> ts, open |-> o, high |-> h, low |-> l, close |-> c, volume |-> v]

MaxOf(S) == CHOOSE m \in S : \A x \in S : x <= m
MinOf(S) == CHOOSE m \in S : \A x \in S : m <= x

RECURSIVE SumOver(_, _)
\* sum of f[i] over the indices in idx
SumOver(f, idx) ==
    IF idx = {} THEN 0
    ELSE LET i == CHOOSE j \in idx : TRUE IN f[i] + SumOver(f, idx \ {i})

\* rule: the resampling period in seconds ("5T", "H")
rule(t) == CASE t = "M5" -> 300 [] t = "H1" -> 3600

\* rows of the bin labeled T for closed="left", label="right"
BinLeft(rows, period, T) ==
    {i \in 1..Len(rows) : T - period <= rows[i].datetime_utc /\ rows[i].datetime_utc < T}

\* rows of the bin labeled T for closed="right", label="right"
BinRight(rows, period, T) ==
    {i \in 1..Len(rows) : T - period < rows[i].datetime_utc /\ rows[i].datetime_utc <= T}

\* agg: first / max / min / last / sum over the rows idx of one bin
Agg(rows, idx, T) ==
    Row(T, rows[MinOf(idx)].open,
           MaxOf({rows[i].high : i \in idx}),
           MinOf({rows[i].low : i \in idx}),
           rows[MaxOf(idx)].close,
           SumOver([i \in 1..Len(rows) |-> rows[i].volume], idx))

\* the index of a frame that groups by key: the keys in ascending order
SortedIndex(S) ==
    [k \in 1..Cardinality(S) |-> CHOOSE x \in S : Cardinality({y \in S : y <= x}) = k]

\* faulty variant: bins closed on the left
resample_agg_left(rows, period) ==
    LET labels == SortedIndex({((rows[i].datetime_utc \div period) + 1) * period
                                      : i \in 1..Len(rows)})
    IN  [k \in 1..Len(labels) |-> Agg(rows, BinLeft(rows, period, labels[k]), labels[k])]

\* .resample(rule, label="right", closed="right").agg(...) and the dropna
\* that removes the bins without rows
resample_agg(rows, period) ==
    LET labels == SortedIndex({PeriodLabel(rows[i].datetime_utc, period)
                                      : i \in 1..Len(rows)})
    IN  [k \in 1..Len(labels) |-> Agg(rows, BinRight(rows, period, labels[k]), labels[k])]

\* _resample_ohlcv(df, tf) with every column
ResampleFrame(rows, t) ==
    IF t = "M1" THEN rows ELSE resample_agg(rows, rule(t))

RsAnchors == {DateTime(2024, 12, 17, 10, 0, 0), DateTime(2024, 12, 17, 10, 59, 0)}

\* spacing of consecutive input rows; 0 is a repeated timestamp
RsDeltas == {0, 60, 240, 300, 3600}

\* open, high, low, close, volume of an input row
RsValues == {<<2, 4, 1, 3, 10>>, <<5, 6, 2, 4, 1>>, <<3, 3, 3, 3, 0>>}

AddBar ==
    /\ pc = "rows"
    /\ Len(df) < MaxRows
    /\ \E ts \in (IF df = <<>> THEN RsAnchors
                  ELSE {df[Len(df)].datetime_utc + d : d \in RsDeltas}),
          x \in RsValues :
           df' = Append(df, Row(ts, x[1], x[2], x[3], x[4], x[5]))
    /\ UNCHANGED <<pc, ctx, cfg_text, year, tf, bars, bar_g, tagged, fx_wins, filtered, out, ret, cal_df, calm, score, weekly, req, cb>>

Resample ==
    /\ pc = "rows"
    /\ \E t \in {"M1", "M5", "H1"} :
           /\ tf' = t
           /\ bars' = ResampleFrame(df, t)
    /\ pc' = "resampled"
    /\ UNCHANGED <<ctx, cfg_text, year, df, bar_g, tagged, fx_wins, filtered, out, ret, cal_df, calm, score, weekly, req, cb>>

InitRs ==
    /\ pc = "rows"
    /\ cfg_text = <<>>
    /\ year \in ReportYears
    /\ Idle

NextRs == AddBar \/ Resample

SpecRs == InitRs /\ [][NextRs]_vars

Stamps(rows) == [i \in 1..Len(rows) |-> rows[i].datetime_utc]

\* the timestamps of the resampled frame are the bar timestamps the gap
\* extractor is given
FrameStampsAgree ==
    pc = "resampled" => Stamps(bars) = _resample_ohlcv(Stamps(df), tf)

\* period boundaries from the one ending at or before the first row to the
\* one closing the last row
Boundaries(period) ==
    IF df = <<>> THEN {}
    ELSE LET lo == (df[1].datetime_utc \div period) * period
             n  == ((df[Len(df)].datetime_utc - lo) \div period) + 1
         IN  {lo + k * period : k \in 0..n}

RowsOfPeriod(period, T) ==
    {i \in 1..Len(df) : T - period < df[i].datetime_utc /\ df[i].datetime_utc <= T}

BarsLabeled(T) == {k \in 1..Len(bars) : bars[k].datetime_utc = T}

\* C11: at M5 and H1 the rows stamped in (T - period, T] make the one bar
\* labeled T, a row stamped exactly T included; that bar has open = first,
\* high = max, low = min, close = last, volume = sum of these rows; a period
\* without rows has no bar.
C11_RightClosedRightLabeled ==
    (pc = "resampled" /\ tf \in {"M5", "H1"}) =>
        LET period == IF tf = "M5" THEN 300 ELSE 3600
        IN  /\ \A k \in 1..Len(bars) : bars[k].datetime_utc \in Boundaries(period)
            /\ \A T \in Boundaries(period) :
                  LET R == RowsOfPeriod(period, T)
                  IN  IF R = {} THEN BarsLabeled(T) = {}
                      ELSE /\ Cardinality(BarsLabeled(T)) = 1
                           /\ \A k \in BarsLabeled(T) :
                                 /\ bars[k].open = df[MinOf(R)].open
                                 /\ bars[k].close = df[MaxOf(R)].close
                                 /\ \A i \in R : /\ df[i].high <= bars[k].high
                                                 /\ bars[k].low <= df[i].low
                                 /\ \E i \in R : df[i].high = bars[k].high
                                 /\ \E i \in R : df[i].low = bars[k].low
                                 /\ bars[k].volume = SumOver([i \in 1..Len(df) |-> df[i].volume], R)

\* C11 witness: an M5 bar made of a row strictly inside its period and a row
\* on its boundary, with different opens and closes, and an empty period
\* before the next bar
C11_Witness ==
    /\ pc = "resampled" /\ tf = "M5"
    /\ Len(df) = 3 /\ Len(bars) = 2
    /\ df[1].datetime_utc % 300 # 0
    /\ df[2].datetime_utc % 300 = 0
    /\ df[2].datetime_utc - df[1].datetime_utc < 300
    /\ bars[1].datetime_utc = df[2].datetime_utc
    /\ bars[1].open = df[1].open /\ bars[1].close = df[2].close
    /\ df[1].open # df[2].open
    /\ df[1].close # df[2].close
    /\ bars[1].volume = df[1].volume + df[2].volume
    /\ bars[2].datetime_utc - bars[1].datetime_utc > 300

StrictlyIncreasing(rows) ==
    \A i \in 1..(Len(rows) - 1) : rows[i].datetime_utc < rows[i + 1].datetime_utc

\* C12: for every input series and each of M1, M5, H1 the output is
\* strictly increasing in timestamp (ascending, no timestamp twice), and at
\* M1 the output equals the input.
C12_OutputStrictlyIncreasing ==
    pc = "resampled" =>
        /\ StrictlyIncreasing(bars)
        /\ tf = "M1" => bars = df

\* what the code meets: M5 and H1 frames are strictly increasing whatever
\* the rows, the M1 frame is the input and so only as ordered as the input
C12_StrictWhenInputStrict ==
    pc = "resampled" =>
        /\ (tf \in {"M5", "H1"} \/ StrictlyIncreasing(df)) => StrictlyIncreasing(bars)
        /\ tf = "M1" => bars = df

-----------------------------------------------------------------------------
(* Exact fractions n/d, d > 0, in lowest terms: the values of the float     *)
(* computations (shares, coverage, scores), without rounding                *)

Abs(x) == IF x < 0 THEN 0 - x ELSE x

RECURSIVE GCD(_, _)
GCD(a, b) == IF b = 0 THEN a ELSE GCD(b, a % b)

Frac(n, d) ==
    LET g == GCD(Abs(n), Abs(d))
        s == IF d < 0 THEN 0 - 1 ELSE 1
    IN  [n |-> (s * n) \div g, d |-> (s * d) \div g]

FInt(k)    == [n |-> k, d |-> 1]
FAdd(a, b) == Frac(a.n * b.d + b.n * a.d, a.d * b.d)
FSub(a, b) == Frac(a.n * b.d - b.n * a.d, a.d * b.d)
FMul(a, b) == Frac(a.n * b.n, a.d * b.d)
FDiv(a, b) == Frac(a.n * b.d, a.d * b.n)
FLe(a, b)  == a.n * b.d <= b.n * a.d
FLt(a, b)  == a.n * b.d < b.n * a.d
FMin(a, b) == IF FLe(a, b) THEN a ELSE b
FMax(a, b) == IF FLe(a, b) THEN b ELSE a

-----------------------------------------------------------------------------
(* _match_calendar_high *)

\* faulty variant: the tolerance is one second too wide
EventMask_wide(tg, ts, w) ==
    {i \in 1..Len(tg) : tg[i].gap_start - (w + 1) <= ts /\ ts <= tg[i].gap_end + (w + 1)}

\* the mask m of one event: the gaps with ts in [gap_start - w, gap_end + w]
EventMask(tg, ts, w) ==
    {i \in 1..Len(tg) : tg[i].gap_start - w <= ts /\ ts <= tg[i].gap_end + w}

WithCalendarHigh(g, b) ==
    [gap_start |-> g.gap_start, gap_end |-> g.gap_end, delta_sec |-> g.delta_sec,
     reason |-> g.reason, calendar_high |-> b]

\* faulty variant: an event counts as matched when any gap matches it
_match_calendar_high_any(tg, cal, window_sec) ==
    IF cal.none \/ Len(cal.ts) = 0 \/ Len(tg) = 0
    THEN [out |-> [i \in 1..Len(tg) |-> WithCalendarHigh(tg[i], FALSE)],
          total_high_events   |-> IF cal.none THEN 0 ELSE Len(cal.ts),
          matched_high_events |-> 0,
          coverage            |-> FInt(0)]
    ELSE LET matched_events == {cal.ts[k] : k \in {j \in 1..Len(cal.ts) :
                                       EventMask(tg, cal.ts[j], window_sec) # {}}}
         IN  [out |-> [i \in 1..Len(tg) |->
                          WithCalendarHigh(tg[i],
                              \E k \in 1..Len(cal.ts) : i \in EventMask(tg, cal.ts[k], window_sec))],
              total_high_events   |-> Len(cal.ts),
              matched_high_events |-> Cardinality(matched_events),
              coverage            |-> Frac(Cardinality(matched_events), Len(cal.ts))]

_match_calendar_high(tg, cal, window_sec) ==
    IF cal.none \/ Len(cal.ts) = 0 \/ Len(tg) = 0
    THEN [out |-> [i \in 1..Len(tg) |-> WithCalendarHigh(tg[i], FALSE)],
          total_high_events   |-> IF cal.none THEN 0 ELSE Len(cal.ts),
          matched_high_events |-> 0,
          coverage            |-> FInt(0)]
    ELSE LET anomalies_idx  == {i \in 1..Len(tg) : tg[i].reason = NoReason}
             matched_events == {cal.ts[k] : k \in {j \in 1..Len(cal.ts) :
                                       EventMask(tg, cal.ts[j], window_sec) \cap anomalies_idx # {}}}
             total_high     == Len(cal.ts)
             matched_high   == Cardinality(matched_events)
         IN  [out |-> [i \in 1..Len(tg) |->
                          WithCalendarHigh(tg[i],
                              \E k \in 1..Len(cal.ts) : i \in EventMask(tg, cal.ts[k], window_sec))],
              total_high_events   |-> total_high,
              matched_high_events |-> matched_high,
              coverage            |-> IF total_high > 0 THEN Frac(matched_high, total_high)
                                      ELSE FInt(0)]

-----------------------------------------------------------------------------
(* build_common_blocks up to the calendar metrics, with a calendar of the  *)
(* year                                                                    *)

MaxEvents == 2   \* high-impact events of the calendar

CalAnchors == {DateTime(2024, 12, 17, 10, 0, 0), DateTime(2024, 12, 21, 10, 0, 0)}

CalDeltas == {60, 600, 518400}

\* event times relative to a row: outside the tolerance, on its edge, inside
EventOffsets == {0 - 61, 0 - 60, 30, 60, 61}

CalConfigs == { <<>>, <<Hdr(0, "runtime"), KV(1, "timeframe", "M1")>> }

AddCalRow ==
    /\ pc = "cal_input"
    /\ Len(df) < MaxRows
    /\ \E ts \in (IF df = <<>> THEN CalAnchors ELSE {df[Len(df)] + d : d \in CalDeltas}) :
           df' = Append(df, ts)
    /\ UNCHANGED <<pc, ctx, cfg_text, year, tf, bars, bar_g, tagged, fx_wins, filtered, out, ret, cal_df, calm, score, weekly, req, cb>>

\* _load_calendar_df finds the file of the year
FindCalendar ==
    /\ pc = "cal_input"
    /\ cal_df.none
    /\ cal_df' = [none |-> FALSE, ts |-> <<>>]
    /\ UNCHANGED <<pc, ctx, cfg_text, year, df, tf, bars, bar_g, tagged, fx_wins, filtered, out, ret, calm, score, weekly, req, cb>>

\* one more high-impact row in the file; the loader sorts the rows and keeps
\* one per timestamp
AddEvent ==
    /\ pc = "cal_input"
    /\ ~cal_df.none
    /\ Len(cal_df.ts) < MaxEvents
    /\ \E i \in 1..Len(df), o \in EventOffsets :
           /\ \A k \in 1..Len(cal_df.ts) : cal_df.ts[k] < df[i] + o
           /\ cal_df' = [none |-> FALSE, ts |-> Append(cal_df.ts, df[i] + o)]
    /\ UNCHANGED <<pc, ctx, cfg_text, year, df, tf, bars, bar_g, tagged, fx_wins, filtered, out, ret, calm, score, weekly, req, cb>>

MatchCalendar ==
    /\ pc = "cal_input"
    /\ \E c \in CalConfigs :
          LET t  == _read_runtime_timeframe(c)
              b  == _resample_ohlcv(df, t)
              g  == _bar_gaps(b, t)
              fx == FxWinsOrEmpty(year, c)
              wk == _tag_explainable(g, c)
              tg == HolidayTag(wk, fx)
          IN  /\ cfg_text' = c
              /\ tf' = t
              /\ bars' = b
              /\ bar_g' = g
              /\ fx_wins' = fx
              /\ IF HolidayMaskRaises(wk, fx)
                 THEN /\ tagged' = wk
                      /\ pc' = "raised"
                      /\ UNCHANGED <<filtered, calm>>
                 ELSE /\ tagged' = tg
                      /\ filtered' = Anomalous(tg)
                      /\ calm' = _match_calendar_high(tg, cal_df, 60)
                      /\ pc' = "matched"
    /\ UNCHANGED <<ctx, year, df, out, ret, cal_df, score, weekly, req, cb>>

InitCal ==
    /\ pc = "cal_input"
    /\ cfg_text = <<>>
    /\ year \in ReportYears
    /\ Idle

NextCal == AddCalRow \/ FindCalendar \/ AddEvent \/ MatchCalendar

SpecCal == InitCal /\ [][NextCal]_vars

Events == IF cal_df.none THEN {} ELSE Range(cal_df.ts)

\* t lies within 60 s of the gap g
Near(g, t) == g.gap_start - 60 <= t /\ t <= g.gap_end + 60

\* C13: a gap, tagged or not, has calendar_high exactly when some event t
\* has start - 60 <= t <= end + 60; matched_high_events counts the events
\* that at least one anomalous gap matches, each once; coverage is
\* matched_high_events / total_high_events, and 0 when there are no events.
C13_CalendarHighAndCoverage ==
    pc = "matched" =>
        /\ Len(calm.out) = Len(tagged)
        /\ \A i \in 1..Len(tagged) :
              /\ calm.out[i].gap_start = tagged[i].gap_start
              /\ calm.out[i].gap_end = tagged[i].gap_end
              /\ calm.out[i].reason = tagged[i].reason
              /\ calm.out[i].calendar_high = (\E t \in Events : Near(tagged[i], t))
        /\ calm.matched_high_events =
              Cardinality({t \in Events : \E i \in 1..Len(tagged) :
                              tagged[i].reason = NoReason /\ Near(tagged[i], t)})
        /\ calm.total_high_events = Cardinality(Events)
        /\ IF Events = {} THEN calm.coverage = FInt(0)
           ELSE calm.coverage.n * calm.total_high_events
                    = calm.matched_high_events * calm.coverage.d

\* C13 witness: two events, one on the edge end + 60 of an anomalous gap and
\* one within 60 s of a weekend gap only: both gaps are marked, one event
\* is matched, coverage is 1/2
C13_Witness ==
    /\ pc = "matched"
    /\ Len(tagged) = 2 /\ Len(cal_df.ts) = 2
    /\ tagged[1].reason = NoReason /\ tagged[2].reason = "weekend/closed-hours"
    /\ cal_df.ts[1] = tagged[1].gap_end + 60
    /\ ~Near(tagged[1], cal_df.ts[2]) /\ Near(tagged[2], cal_df.ts[2])
    /\ calm.out[1].calendar_high /\ calm.out[2].calendar_high
    /\ calm.matched_high_events = 1
    /\ calm.coverage = [n |-> 1, d |-> 2]

\* timestamps a further calendar event may have
NewEvents == {df[i] + o : i \in 1..Len(df), o \in EventOffsets} \ Events

\* the metrics of the same gaps with the event e added to the calendar
WithEvent(e) ==
    _match_calendar_high(tagged, [none |-> FALSE, ts |-> SetToSortedSeq(Events \cup {e})], 60)

InsideAnomalousGap(e) ==
    \E i \in 1..Len(tagged) :
        /\ tagged[i].reason = NoReason
        /\ tagged[i].gap_start <= e /\ e <= tagged[i].gap_end

OverlapsNoGap(e) == \A i \in 1..Len(tagged) : ~Near(tagged[i], e)

\* C14: for a fixed gap list, one more event with a new timestamp inside an
\* anomalous gap never lowers coverage, and one more event that is within
\* tolerance of no gap leaves matched_high_events as it was.
C14_CoverageMonotone ==
    pc = "matched" =>
        \A e \in NewEvents :
            /\ InsideAnomalousGap(e) => FLe(calm.coverage, WithEvent(e).coverage)
            /\ OverlapsNoGap(e) =>
                  WithEvent(e).matched_high_events = calm.matched_high_events

\* C14 witness: coverage is 1/2; an event inside an anomalous gap would make
\* it 2/3, and an event just outside the tolerance of every gap would leave
\* the one matched event
C14_Witness ==
    /\ pc = "matched"
    /\ calm.coverage = [n |-> 1, d |-> 2]
    /\ \E e \in NewEvents :
          InsideAnomalousGap(e) /\ WithEvent(e).coverage = [n |-> 2, d |-> 3]
    /\ \E e \in NewEvents :
          /\ OverlapsNoGap(e)
          /\ \E i \in 1..Len(tagged) : e = tagged[i].gap_end + 61
          /\ WithEvent(e).matched_high_events = 1
          /\ WithEvent(e).total_high_events = 3

-----------------------------------------------------------------------------
(* _tf_params and _score_tf.  Scores are exact fractions; the one square    *)
(* root (the monthly coefficient of variation) is taken to three decimals. *)

Pct(k) == Frac(k, 100)

gap_buckets(t) ==
    CASE t = "M1" -> [small_max_s |-> 300,   long_min_s |-> 3600]
      [] t = "M5" -> [small_max_s |-> 1800,  long_min_s |-> 10800]
      [] t = "H1" -> [small_max_s |-> 21600, long_min_s |-> 86400]

\* faulty variant: every timeframe gets the M5 weights
weights_m5(t) ==
    [gap_mix |-> Pct(25), hotspots |-> Pct(20), extremes |-> Pct(15),
     monthly |-> Pct(15), sessions |-> Pct(10), calendar |-> Pct(5),
     completeness |-> Pct(10)]

weights(t) ==
    CASE t = "M1" -> [gap_mix |-> Pct(30), hotspots |-> Pct(20), extremes |-> Pct(15),
                      monthly |-> Pct(15), sessions |-> Pct(10), calendar |-> Pct(5),
                      completeness |-> Pct(5)]
      [] t = "M5" -> [gap_mix |-> Pct(25), hotspots |-> Pct(20), extremes |-> Pct(15),
                      monthly |-> Pct(15), sessions |-> Pct(10), calendar |-> Pct(5),
                      completeness |-> Pct(10)]
      [] t = "H1" -> [gap_mix |-> Pct(20), hotspots |-> Pct(15), extremes |-> Pct(15),
                      monthly |-> Pct(15), sessions |-> Pct(10), calendar |-> Pct(5),
                      completeness |-> Pct(20)]

targets(t) ==
    CASE t = "M1" -> [small_share |-> Pct(40), long_share |-> Pct(20),
                      extreme_rate_per_k |-> Frac(1, 2), monthly_cv |-> FInt(1),
                      session_other |-> Pct(10), longest_gap_hours_ok |-> FInt(24)]
      [] t = "M5" -> [small_share |-> Pct(50), long_share |-> Pct(15),
                      extreme_rate_per_k |-> FInt(1), monthly_cv |-> FInt(1),
                      session_other |-> Pct(10), longest_gap_hours_ok |-> FInt(24)]
      [] t = "H1" -> [small_share |-> Pct(60), long_share |-> Pct(10),
                      extreme_rate_per_k |-> FInt(1), monthly_cv |-> FInt(1),
                      session_other |-> Pct(10), longest_gap_hours_ok |-> FInt(24)]

\* faulty variant: with no gaps every share is 1
Share_empty1(idx, N) == IF N > 0 THEN Frac(Cardinality(idx), N) ELSE FInt(1)

\* (mask).mean(): the share of the gaps in idx
Share(idx, N) == IF N > 0 THEN Frac(Cardinality(idx), N) ELSE FInt(0)

\* faulty variant: the small-gap share is not capped at its target
GapMix_unclipped(gaps, t) ==
    LET N       == Len(gaps)
        p_small == Share({i \in 1..N : gaps[i].delta_sec > Expect(t)
                                        /\ gaps[i].delta_sec <= gap_buckets(t).small_max_s}, N)
        p_long  == Share({i \in 1..N : gaps[i].delta_sec > gap_buckets(t).long_min_s}, N)
        comp_small == FDiv(p_small, targets(t).small_share)
        comp_long  == FMax(FInt(0), FSub(FInt(1), FMin(FInt(1), FDiv(p_long, targets(t).long_share))))
    IN  [p_small |-> p_small, p_long |-> p_long,
         gap_mix |-> FMul(FInt(100), FAdd(FMul(Frac(6, 10), comp_small),
                                          FMul(Frac(4, 10), comp_long)))]

\* faulty variant: a gap of exactly small_max is not small, one of exactly
\* long_min is long
GapMix_edges(gaps, t) ==
    LET N       == Len(gaps)
        p_small == Share({i \in 1..N : gaps[i].delta_sec > Expect(t)
                                        /\ gaps[i].delta_sec < gap_buckets(t).small_max_s}, N)
        p_long  == Share({i \in 1..N : gaps[i].delta_sec >= gap_buckets(t).long_min_s}, N)
        comp_small == FMin(FInt(1), FDiv(p_small, targets(t).small_share))
        comp_long  == FMax(FInt(0), FSub(FInt(1), FMin(FInt(1), FDiv(p_long, targets(t).long_share))))
    IN  [p_small |-> p_small, p_long |-> p_long,
         gap_mix |-> FMul(FInt(100), FAdd(FMul(Frac(6, 10), comp_small),
                                          FMul(Frac(4, 10), comp_long)))]

\* gap_mix and the shares it comes from
GapMix(gaps, t) ==
    LET N       == Len(gaps)
        p_small == Share({i \in 1..N : gaps[i].delta_sec > Expect(t)
                                        /\ gaps[i].delta_sec <= gap_buckets(t).small_max_s}, N)
        p_long  == Share({i \in 1..N : gaps[i].delta_sec > gap_buckets(t).long_min_s}, N)
        comp_small == FMin(FInt(1), FDiv(p_small, targets(t).small_share))
        comp_long  == FMax(FInt(0), FSub(FInt(1), FMin(FInt(1), FDiv(p_long, targets(t).long_share))))
    IN  [p_small |-> p_small, p_long |-> p_long,
         gap_mix |-> FMul(FInt(100), FAdd(FMul(Frac(6, 10), comp_small),
                                          FMul(Frac(4, 10), comp_long)))]

HourOf(ts)      == (ts % SecPerDay) \div 3600
MinuteOfDay(ts) == (ts % SecPerDay) \div 60

RECURSIVE FSum(_, _)
\* sum of the fractions f[x] over x in S
FSum(f, S) ==
    IF S = {} THEN FInt(0)
    ELSE LET x == CHOOSE y \in S : TRUE IN FAdd(f[x], FSum(f, S \ {x}))

\* faulty variant: the concentration H is not normalised by the number of cells
Hotspots_raw(gaps) ==
    LET N     == Len(gaps)
        cell(i) == <<Weekday(DayOf(gaps[i].gap_start)), HourOf(gaps[i].gap_start)>>
        cells == {cell(i) : i \in 1..N}
        size  == [c \in cells |-> Cardinality({i \in 1..N : cell(i) = c})]
        H     == FSum([c \in cells |-> FMul(Frac(size[c], N), Frac(size[c], N))], cells)
    IN  IF N > 0 THEN FMul(FInt(100), FSub(FInt(1), H)) ELSE FInt(100)

\* hotspots: concentration of the gaps over (weekday, hour) cells
Hotspots(gaps) ==
    LET N     == Len(gaps)
        cell(i) == <<Weekday(DayOf(gaps[i].gap_start)), HourOf(gaps[i].gap_start)>>
        cells == {cell(i) : i \in 1..N}
        size  == [c \in cells |-> Cardinality({i \in 1..N : cell(i) = c})]
        H     == FSum([c \in cells |-> FMul(Frac(size[c], N), Frac(size[c], N))], cells)
        C     == Cardinality(cells)
        normH == IF C > 1 THEN FDiv(FSub(H, Frac(1, C)), FSub(FInt(1), Frac(1, C)))
                 ELSE FInt(1)
    IN  IF N > 0 THEN FMul(FInt(100), FSub(FInt(1), normH)) ELSE FInt(100)

\* the k-th smallest (k from 1) of the values v[1..n]
SortedAt(v, k) ==
    MinOf({x \in Range(v) : Cardinality({i \in 1..Len(v) : v[i] <= x}) >= k})

\* Series.quantile(0.99), linear interpolation
Quantile99(v) ==
    LET n  == Len(v)
        lo == (99 * (n - 1)) \div 100
        fr == Frac((99 * (n - 1)) % 100, 100)
    IN  IF lo + 2 > n THEN FInt(SortedAt(v, lo + 1))
        ELSE FAdd(FInt(SortedAt(v, lo + 1)),
                  FMul(fr, FInt(SortedAt(v, lo + 2) - SortedAt(v, lo + 1))))

\* per_k: the number of bars the extreme rate is taken over
per_k(t) == IF t = "M1" THEN 10000 ELSE 1000

\* extremes, with the count and the rate it comes from
Extremes(b, t) ==
    LET n     == Len(b)
        range == [i \in 1..n |-> Abs(b[i].high - b[i].low)]
        p99r  == IF n > 0 THEN Quantile99(range) ELSE FInt(0)
        ext   == IF FLt(FInt(0), p99r)
                 THEN Cardinality({i \in 1..n : FLt(FMul(FInt(5), p99r), FInt(range[i]))})
                 ELSE 0
        rate_per_k == IF n > 0 THEN FDiv(FInt(ext), Frac(n, per_k(t))) ELSE FInt(0)
    IN  [ext |-> ext, rate_per_k |-> rate_per_k,
         extremes |-> FMul(FInt(100),
                           FSub(FInt(1), FMin(FInt(1),
                                FDiv(rate_per_k, targets(t).extreme_rate_per_k))))]

\* dt.to_period("M") of a day: year * 12 + month
MonthOfDay(dn) ==
    LET y == YearOf(dn * SecPerDay)
        m == CHOOSE k \in 1..12 :
                 DayNo(y, k, 1) <= dn /\ dn < DayNo(y, k, 1) + DaysInMonth(y, k)
    IN  y * 12 + m

\* floor(sqrt(n)) of a whole number below 4000000
ISqrt(n) == CHOOSE k \in 0..2000 : k * k <= n /\ n < (k + 1) * (k + 1)

\* the square root of the fraction r, to three decimals
Sqrt3(r) == Frac(ISqrt((r.n * 1000000) \div r.d), 1000)

\* monthly stability: coefficient of variation of the gap counts over the
\* months that have bars
Monthly(b, gaps, t) ==
    LET months == {MonthOfDay(d) : d \in {DayOf(b[i].datetime_utc) : i \in 1..Len(b)}}
        M      == Cardinality(months)
        count  == [m \in months |->
                      Cardinality({i \in 1..Len(gaps) :
                                      MonthOfDay(DayOf(gaps[i].gap_start)) = m})]
        mu     == IF M > 0 THEN Frac(SumOver(count, months), M) ELSE FInt(0)
        var    == IF M > 0
                  THEN FDiv(FSum([m \in months |->
                                     FMul(FSub(FInt(count[m]), mu), FSub(FInt(count[m]), mu))],
                                 months), FInt(M))
                  ELSE FInt(0)
        cv     == IF FLt(FInt(0), mu) THEN Sqrt3(FDiv(var, FMul(mu, mu))) ELSE FInt(0)
    IN  [cv |-> cv,
         monthly |-> FMul(FInt(100),
                          FSub(FInt(1), FMin(FInt(1), FDiv(cv, targets(t).monthly_cv))))]

_sess(ts) ==
    LET h      == MinuteOfDay(ts)
        asia   == 0 <= h /\ h < 8 * 60
        london == 7 * 60 <= h /\ h < 16 * 60
        ny     == 12 * 60 <= h /\ h < 21 * 60
    IN  IF asia /\ london THEN "Asia-London overlap"
        ELSE IF london /\ ny THEN "London-NY overlap"
        ELSE IF ny THEN "NY"
        ELSE IF london THEN "London"
        ELSE IF asia THEN "Asia"
        ELSE "Other"

\* the labelling of the session table (module level)
_session_label(ts) ==
    LET h      == MinuteOfDay(ts)
        asia   == 0 <= h /\ h < 8 * 60
        london == 7 * 60 <= h /\ h < 16 * 60
        ny     == 12 * 60 <= h /\ h < 21 * 60
    IN  IF asia /\ london THEN "Asia-London overlap"
        ELSE IF london /\ ny THEN "London-NY overlap"
        ELSE IF ny THEN "NY"
        ELSE IF london THEN "London"
        ELSE IF asia THEN "Asia"
        ELSE "Other"

\* faulty variant: the share of Other gaps is measured against 0.20
Sessions_target20(gaps, t) ==
    LET share_other == Share({i \in 1..Len(gaps) : _sess(gaps[i].gap_start) = "Other"},
                             Len(gaps))
    IN  FMul(FInt(100),
             FSub(FInt(1), FMin(FInt(1), FDiv(share_other, Pct(20)))))

Sessions(gaps, t) ==
    LET share_other == Share({i \in 1..Len(gaps) : _sess(gaps[i].gap_start) = "Other"},
                             Len(gaps))
    IN  FMul(FInt(100),
             FSub(FInt(1), FMin(FInt(1), FDiv(share_other, targets(t).session_other))))

\* target coverage of the calendar component
CoverageTarget(t) == CASE t = "M1" -> Pct(10) [] t = "M5" -> Pct(20) [] t = "H1" -> Pct(30)

\* bar_gaps.assign(reason = None): every gap handed to the score is anomalous
AllAnomalous(gaps) ==
    [i \in 1..Len(gaps) |->
        [gap_start |-> gaps[i].gap_start, gap_end |-> gaps[i].gap_end,
         delta_sec |-> gaps[i].delta_sec, reason |-> NoReason]]

\* faulty variant: a missing calendar scores 0
Calendar_absent0(gaps, t, cal) ==
    IF cal.none \/ Len(cal.ts) = 0
    THEN [coverage |-> FInt(0), calendar |-> FInt(0)]
    ELSE LET coverage == _match_calendar_high(AllAnomalous(gaps), cal, 60).coverage
         IN  [coverage |-> coverage,
              calendar |-> FMul(FInt(100), FMin(FInt(1), FDiv(coverage, CoverageTarget(t))))]

Calendar(gaps, t, cal) ==
    IF cal.none \/ Len(cal.ts) = 0
    THEN [coverage |-> FInt(0), calendar |-> FInt(100)]
    ELSE LET coverage == _match_calendar_high(AllAnomalous(gaps), cal, 60).coverage
         IN  [coverage |-> coverage,
              calendar |-> FMul(FInt(100), FMin(FInt(1), FDiv(coverage, CoverageTarget(t))))]

\* faulty variant: the longest gap is measured against 48 hours
Completeness_48(gaps, t) ==
    LET longest_h == IF Len(gaps) > 0 THEN Frac(MaxDelta(gaps), 3600) ELSE FInt(0)
    IN  [longest_h |-> longest_h,
         completeness |-> FMul(FInt(100),
                               FSub(FInt(1), FMin(FInt(1), FDiv(longest_h, FInt(48)))))]

Completeness(gaps, t) ==
    LET longest_h == IF Len(gaps) > 0 THEN Frac(MaxDelta(gaps), 3600) ELSE FInt(0)
    IN  [longest_h |-> longest_h,
         completeness |-> FMul(FInt(100),
                               FSub(FInt(1), FMin(FInt(1),
                                    FDiv(longest_h, targets(t).longest_gap_hours_ok))))]

\* total: the weighted sum of the seven components
Total(W, c) ==
    FAdd(FMul(W.gap_mix, c.gap_mix),
    FAdd(FMul(W.hotspots, c.hotspots),
    FAdd(FMul(W.extremes, c.extremes),
    FAdd(FMul(W.monthly, c.monthly),
    FAdd(FMul(W.sessions, c.sessions),
    FAdd(FMul(W.calendar, c.calendar),
         FMul(W.completeness, c.completeness)))))))

\* _score_tf(bars, bar_gaps, tf, year), cal being what _load_calendar_df(year)
\* returns; the result carries the components and the locals behind them
_score_tf(b, gaps, t, cal) ==
    LET gm == GapMix(gaps, t)
        ex == Extremes(b, t)
        mo == Monthly(b, gaps, t)
        ca == Calendar(gaps, t, cal)
        co == Completeness(gaps, t)
        c  == [gap_mix |-> gm.gap_mix, hotspots |-> Hotspots(gaps),
               extremes |-> ex.extremes, monthly |-> mo.monthly,
               sessions |-> Sessions(gaps, t), calendar |-> ca.calendar,
               completeness |-> co.completeness]
    IN  [total |-> Total(weights(t), c), comp |-> c, W |-> weights(t),
         N |-> Len(gaps), p_small |-> gm.p_small, p_long |-> gm.p_long,
         bars |-> Len(b), ext |-> ex.ext, rate_per_k |-> ex.rate_per_k, cv |-> mo.cv,
         coverage |-> ca.coverage, longest_h |-> co.longest_h]

-----------------------------------------------------------------------------
(* build_common_blocks with the score: rows arrive in runs of nominally    *)
(* spaced bars, separated by longer steps                                  *)

MaxRuns == 4   \* runs of evenly spaced rows in the input

LongRun == 100  \* rows of a long first run

ScoreConfigs ==
    { <<>>,
      <<Hdr(0, "runtime"), KV(1, "timeframe", "M1")>>,
      <<Hdr(0, "runtime"), KV(1, "timeframe", "H1")>> }

\* the first row: a Tuesday morning that is the last day of a month, a
\* Friday evening one hour before the weekly close
ScoreAnchors == {DateTime(2024, 12, 31, 10, 0, 0), DateTime(2024, 12, 20, 21, 0, 0)}

\* steps between runs, around the small / long bucket edges of the timeframe
ScoreDeltas(t) ==
    CASE t = "M1" -> {120, 300, 3600, 3660, 86400}
      [] t = "M5" -> {600, 1800, 10800, 11100, 86400}
      [] t = "H1" -> {7200, 21600, 86400, 90000}

\* open, high, low, close, volume of a quiet bar, a wide bar, a flat bar
QuietBar == <<2, 3, 2, 3, 1>>
WideBar  == <<2, 102, 2, 3, 1>>
FlatBar  == <<3, 3, 3, 3, 0>>

\* k rows with the values x, the first at ts, evenly spaced by step
Run(ts, k, step, x) ==
    [i \in 1..k |-> Row(ts + (i - 1) * step, x[1], x[2], x[3], x[4], x[5])]

\* rows after which the series jumps by more than the nominal spacing
RunEnds(rows, t) ==
    {i \in 1..(Len(rows) - 1) :
        rows[i + 1].datetime_utc - rows[i].datetime_utc > Expect(t)}

AddRun ==
    /\ pc = "score_input"
    /\ LET t == _read_runtime_timeframe(cfg_text)
       IN  IF df = <<>>
           THEN \E ts \in ScoreAnchors :
                   \E r \in {<<1, QuietBar>>, <<LongRun, QuietBar>>, <<1, FlatBar>>} :
                       df' = Run(ts, r[1], Expect(t), r[2])
           ELSE /\ Cardinality(RunEnds(df, t)) + 1 < (IF Len(df) >= LongRun THEN 2 ELSE MaxRuns)
                /\ \E d \in ScoreDeltas(t),
                      x \in (IF Len(df) >= LongRun THEN {QuietBar, WideBar} ELSE {QuietBar}) :
                       df' = df \o Run(df[Len(df)].datetime_utc + d, 1, Expect(t), x)
    /\ UNCHANGED <<pc, ctx, cfg_text, year, tf, bars, bar_g, tagged, fx_wins, filtered, out, ret, cal_df, calm, score, weekly, req, cb>>

\* what _load_calendar_df(year) may return for these rows: nothing, an empty
\* list, or no or eleven events long before the data together with no event,
\* one event or every event 90 s after the last row of a run
CalendarsFor(rows, t) ==
    LET far(u) == {rows[1].datetime_utc - k * SecPerDay : k \in 1..u}
        after  == {rows[i].datetime_utc + 90 : i \in RunEnds(rows, t)}
        near   == {{}, after} \cup {{e} : e \in after}
    IN  {NoCal} \cup
        (IF rows = <<>> THEN {[none |-> FALSE, ts |-> <<>>]}
         ELSE {[none |-> FALSE, ts |-> SetToSortedSeq(far(u) \cup n)] :
                  u \in {0, 11}, n \in near})

Score ==
    /\ pc = "score_input"
    /\ LET t   == _read_runtime_timeframe(cfg_text)
           b   == ResampleFrame(df, t)
           g   == _bar_gaps(Stamps(b), t)
           fx  == FxWinsOrEmpty(year, cfg_text)
           wk  == _tag_explainable(g, cfg_text)
           tg  == HolidayTag(wk, fx)
           flt == Anomalous(tg)
       IN  /\ tf' = t
           /\ bars' = b
           /\ bar_g' = g
           /\ fx_wins' = fx
           /\ IF HolidayMaskRaises(wk, fx)
              THEN /\ tagged' = wk
                   /\ pc' = "raised"
                   /\ UNCHANGED <<filtered, cal_df, score>>
              ELSE /\ tagged' = tg
                   /\ filtered' = flt
                   /\ \E cal \in CalendarsFor(df, t) :
                         /\ cal_df' = cal
                         /\ score' = _score_tf(b, flt, t, cal)
                   /\ pc' = "scored"
    /\ UNCHANGED <<ctx, cfg_text, year, df, out, ret, calm, weekly, req, cb>>

InitScore ==
    /\ pc = "score_input"
    /\ cfg_text \in ScoreConfigs
    /\ year = 2024
    /\ Idle

NextScore == AddRun \/ Score

SpecScore == InitScore /\ [][NextScore]_vars

Components ==
    {score.comp.gap_mix, score.comp.hotspots, score.comp.extremes, score.comp.monthly,
     score.comp.sessions, score.comp.calendar, score.comp.completeness}

InScoreRange(x) == FLe(FInt(0), x) /\ FLe(x, FInt(100))

\* C15: each of the seven components and the total lie in [0, 100].
C15_ScoresWithinBounds ==
    pc = "scored" =>
        /\ \A x \in Components : InScoreRange(x)
        /\ InScoreRange(score.total)

Strictly(x) == FLt(FInt(0), x) /\ FLt(x, FInt(100))

\* C15 witness: three anomalous gaps over two months, the longest of 24 hours,
\* and a calendar with one matched event of twelve: gap_mix, monthly,
\* calendar and the total are strictly inside (0, 100), completeness is 0
C15_Witness ==
    /\ pc = "scored"
    /\ score.N = 3
    /\ Strictly(score.comp.gap_mix)
    /\ Strictly(score.comp.monthly)
    /\ Strictly(score.comp.calendar)
    /\ score.comp.completeness = FInt(0)
    /\ score.comp.extremes = FInt(100)
    /\ Strictly(score.total)

ComponentNames ==
    {"gap_mix", "hotspots", "extremes", "monthly", "sessions", "calendar", "completeness"}

\* C16: the seven weights of the timeframe are non-negative and sum to 1,
\* the total is the sum of weight x component over the seven components,
\* and completeness weighs 0.05 at M1 and 0.20 at H1.
C16_WeightsAndTotal ==
    pc = "scored" =>
        /\ \A k \in ComponentNames : FLe(FInt(0), score.W[k])
        /\ FSum([k \in ComponentNames |-> score.W[k]], ComponentNames) = FInt(1)
        /\ score.total =
              FSum([k \in ComponentNames |-> FMul(score.W[k], score.comp[k])], ComponentNames)
        /\ tf = "M1" => score.W.completeness = Frac(5, 100)
        /\ tf = "H1" => score.W.completeness = Frac(20, 100)

\* C16 witness: an H1 score whose completeness component is 0 while others
\* are not, so that the completeness weight shows in the total
C16_Witness ==
    /\ pc = "scored" /\ tf = "H1"
    /\ score.W.completeness = Frac(1, 5)
    /\ score.comp.completeness = FInt(0)
    /\ score.comp.extremes = FInt(100)
    /\ Strictly(score.total)

Ranges == [i \in 1..Len(bars) |-> Abs(bars[i].high - bars[i].low)]

\* bars whose range exceeds five times the 99th percentile of the ranges
ExtremeBars ==
    IF bars = <<>> THEN {}
    ELSE {i \in 1..Len(bars) :
             /\ FLt(FInt(0), Quantile99(Ranges))
             /\ FLt(FMul(FInt(5), Quantile99(Ranges)), FInt(Ranges[i]))}

\* the extremes score of a count of extreme bars taken per K bars
ExtremesPer(K) ==
    LET rate == IF bars = <<>> THEN FInt(0)
                ELSE FDiv(FInt(Cardinality(ExtremeBars)), Frac(Len(bars), K))
    IN  [rate |-> rate,
         extremes |-> FMul(FInt(100),
                           FSub(FInt(1), FMin(FInt(1),
                                FDiv(rate, targets(tf).extreme_rate_per_k))))]

\* C17: the extremes component counts the bars with |high - low| above five
\* times the 99th percentile of range and turns the count into a rate per
\* 1,000 bars at H1 and per 10,000 bars at M1 and M5, rate = count /
\* (bars / K); the score is 100 * (1 - min(1, rate / target)).
C17_ExtremeRatePerK ==
    pc = "scored" =>
        LET K == IF tf = "H1" THEN 1000 ELSE 10000
        IN  /\ score.ext = Cardinality(ExtremeBars)
            /\ score.rate_per_k = ExtremesPer(K).rate
            /\ score.comp.extremes = ExtremesPer(K).extremes

\* what the code computes: per 10,000 bars at M1 only, per 1,000 at M5 and H1
C17_RatePerThousandAtM5 ==
    pc = "scored" =>
        LET K == IF tf = "M1" THEN 10000 ELSE 1000
        IN  /\ score.ext = Cardinality(ExtremeBars)
            /\ score.rate_per_k = ExtremesPer(K).rate
            /\ score.comp.extremes = ExtremesPer(K).extremes

\* the calendar events within 60 s of some anomalous gap
EventsAtAnomalies ==
    {t \in Events : \E i \in 1..Len(filtered) : Near(filtered[i], t)}

\* C18: the calendar component is 100 when no calendar events are available
\* (no file, or an empty one); otherwise it is 100 * min(1, coverage /
\* target), target 0.10 at M1, 0.20 at M5, 0.30 at H1, the coverage being
\* the share of events matched by anomalous gaps.
C18_CalendarComponent ==
    pc = "scored" =>
        IF Events = {} THEN score.comp.calendar = FInt(100)
        ELSE LET coverage == Frac(Cardinality(EventsAtAnomalies), Cardinality(Events))
                 target   == CASE tf = "M1" -> Frac(10, 100)
                               [] tf = "M5" -> Frac(20, 100)
                               [] tf = "H1" -> Frac(30, 100)
             IN  /\ score.coverage = coverage
                 /\ score.comp.calendar =
                       FMul(FInt(100), FMin(FInt(1), FDiv(coverage, target)))

\* C18 witness: thirteen events, one inside an anomalous gap and one inside
\* a weekend gap only; the coverage is 1/13 and the component is below 100
C18_Witness ==
    /\ pc = "scored"
    /\ Cardinality(Events) = 13
    /\ \E i \in 1..Len(tagged) :
          /\ tagged[i].reason = "weekend/closed-hours"
          /\ \E t \in Events \ EventsAtAnomalies : Near(tagged[i], t)
    /\ Cardinality(EventsAtAnomalies) = 1
    /\ score.coverage = Frac(1, 13)
    /\ Strictly(score.comp.calendar)

\* the score with no calendar, reached beside the above
C18_WitnessNoCalendar ==
    pc = "scored" /\ cal_df.none /\ Len(filtered) > 0 /\ score.comp.calendar = FInt(100)

\* the completeness score of a longest gap of sec seconds
CompletenessOf(sec) ==
    FMul(FInt(100), FSub(FInt(1), FMin(FInt(1), FDiv(Frac(sec, 3600), FInt(24)))))

\* C19: completeness is 100 * (1 - min(1, L / 24)), L the hours of the
\* longest anomalous gap: 100 without anomalous gaps, never larger for a
\* longer gap, 0 from 24 hours on.
C19_Completeness ==
    pc = "scored" =>
        LET sec == MaxDelta(filtered)
        IN  /\ score.longest_h = Frac(sec, 3600)
            /\ score.comp.completeness = CompletenessOf(sec)
            /\ filtered = <<>> => score.comp.completeness = FInt(100)
            /\ sec >= 24 * 3600 => score.comp.completeness = FInt(0)
            /\ \A more \in {60, 3600, 86400} :
                  FLe(Completeness(<<[gap_start |-> 0, gap_end |-> sec + more,
                                      delta_sec |-> sec + more]>>, tf).completeness,
                      score.comp.completeness)

\* C19 witness: a longest anomalous gap of six hours scores 75
C19_Witness ==
    /\ pc = "scored"
    /\ MaxDelta(filtered) = 21600
    /\ score.comp.completeness = FInt(75)

\* C20: gap_mix is 60 * min(1, p_small / target_small) + 40 * (1 - min(1,
\* p_long / target_long)); p_small is the share of anomalous gaps with
\* nominal < delta <= small_max, p_long the share with delta > long_min;
\* small_max / long_min are 300 / 3600 s at M1, 1800 / 10800 s at M5,
\* 21600 / 86400 s at H1.
C20_GapMix ==
    pc = "scored" =>
        LET N         == Len(filtered)
            nominal   == CASE tf = "M1" -> 60 [] tf = "M5" -> 300 [] tf = "H1" -> 3600
            small_max == CASE tf = "M1" -> 300 [] tf = "M5" -> 1800 [] tf = "H1" -> 21600
            long_min  == CASE tf = "M1" -> 3600 [] tf = "M5" -> 10800 [] tf = "H1" -> 86400
            small     == {i \in 1..N : nominal < filtered[i].delta_sec
                                        /\ filtered[i].delta_sec <= small_max}
            long      == {i \in 1..N : filtered[i].delta_sec > long_min}
            p_small   == IF N = 0 THEN FInt(0) ELSE Frac(Cardinality(small), N)
            p_long    == IF N = 0 THEN FInt(0) ELSE Frac(Cardinality(long), N)
        IN  /\ score.p_small = p_small
            /\ score.p_long = p_long
            /\ score.comp.gap_mix =
                  FAdd(FMul(FInt(60), FMin(FInt(1), FDiv(p_small, targets(tf).small_share))),
                       FMul(FInt(40), FSub(FInt(1),
                            FMin(FInt(1), FDiv(p_long, targets(tf).long_share)))))

\* C20 witness: three anomalous M1 gaps of 300 s (small), 3600 s (neither
\* small nor long) and 3660 s (long)
C20_Witness ==
    /\ pc = "scored" /\ tf = "M1"
    /\ {filtered[i].delta_sec : i \in 1..Len(filtered)} = {300, 3600, 3660}
    /\ score.p_small = Frac(1, 3)
    /\ score.p_long = Frac(1, 3)
    /\ Strictly(score.comp.gap_mix)

-----------------------------------------------------------------------------
(* fx_holidays.py: which lines the scanners read *)

\* line i lies in a scoring section: a `scoring:` header precedes it and no
\* top-level key other than `scoring:` stands between that header and i
\* (i included)
InScoringSection(text, i) ==
    \E j \in 1..i :
        /\ text[j].key = "scoring"
        /\ \A k \in (j + 1)..i : ~TopLevel(text[k]) \/ text[k].key = "scoring"

\* the text without the lines that stand outside every scoring section
ScoringLines(text) ==
    LET keep == SetToSortedSeq({i \in 1..Len(text) : InScoringSection(text, i)})
    IN  [k \in 1..Len(keep) |-> text[keep[k]]]

\* C27: the scanners read policy keys and extra-closure entries only inside
\* the scoring -> ignore -> fx_holiday_policy block: lines that follow a
\* later top-level key (outside the scoring section) change neither the
\* policy nor the closure windows, so the result is that of the text without
\* those lines.
C27_OnlyPolicyBlockLinesRead ==
    pc = "fx_done" =>
        /\ ret.raised = fx_holiday_windows(year, ScoringLines(cfg_text)).raised
        /\ ret.wins = fx_holiday_windows(year, ScoringLines(cfg_text)).wins

-----------------------------------------------------------------------------
(* _bar_gaps: shape of the gap list *)

\* the bar timestamps are strictly increasing
BarsStrictlyIncreasing == \A i \in 2..Len(bars) : bars[i - 1] < bars[i]

\* C26: for bars with strictly increasing timestamps the gap list is ordered
\* by start, its gaps do not overlap (a gap ends no later than the next one
\* starts), every gap joins two adjacent bars, delta_sec = end - start
\* exceeds the nominal spacing, and there are at most (bars - 1) gaps.
C26_GapListShape ==
    (Extracted /\ BarsStrictlyIncreasing) =>
        /\ \A k \in 2..Len(bar_g) :
              /\ bar_g[k - 1].gap_start < bar_g[k].gap_start
              /\ bar_g[k - 1].gap_end <= bar_g[k].gap_start
        /\ \A k \in 1..Len(bar_g) :
              /\ \E i \in 2..Len(bars) :
                    bar_g[k].gap_start = bars[i - 1] /\ bar_g[k].gap_end = bars[i]
              /\ bar_g[k].delta_sec = bar_g[k].gap_end - bar_g[k].gap_start
              /\ bar_g[k].delta_sec > Expect(tf)
        /\ (bars # <<>> => Len(bar_g) <= Len(bars) - 1)
        /\ (bars = <<>> => bar_g = <<>>)

\* two gaps that share a bar: the first ends where the second starts
C26_Witness ==
    /\ Extracted
    /\ BarsStrictlyIncreasing
    /\ Len(bars) = 3
    /\ Len(bar_g) = 2
    /\ bar_g[1].gap_end = bar_g[2].gap_start
    /\ bar_g[1].delta_sec # bar_g[2].delta_sec

\* three bars of which only the last two are apart
C26_WitnessOneGap ==
    /\ Extracted
    /\ Len(bars) = 3
    /\ Len(bar_g) = 1
    /\ bar_g[1].gap_start = bars[2]

-----------------------------------------------------------------------------
(* _score_tf: hotspots *)

\* (weekday, hour) cell of a scored gap
CellOf(g) == <<Weekday(DayOf(g.gap_start)), HourOf(g.gap_start)>>

OccupiedCells == {CellOf(filtered[i]) : i \in 1..Len(filtered)}

GapsInCell(c) == Cardinality({i \in 1..Len(filtered) : CellOf(filtered[i]) = c})

\* H: the sum of the squared cell shares
SquaredShares ==
    FSum([c \in OccupiedCells |->
             FMul(Frac(GapsInCell(c), Len(filtered)), Frac(GapsInCell(c), Len(filtered)))],
         OccupiedCells)

\* the normalized entropy the claim describes
NormalizedEntropy ==
    LET C == Cardinality(OccupiedCells)
    IN  IF C > 1 THEN FDiv(FSub(SquaredShares, Frac(1, C)), FSub(FInt(1), Frac(1, C)))
        ELSE FInt(1)

EvenlySpread == \A c, e \in OccupiedCells : GapsInCell(c) = GapsInCell(e)

\* C22: with the gaps in at most one (weekday, hour) cell the normalized
\* entropy is 1.0; with C > 1 cells it is (H - 1/C)/(1 - 1/C), H the sum of
\* the squared cell shares, which lies in [0, 1] and is 0 when the gaps are
\* spread evenly over the cells; the score is 100*(1 - normalized entropy),
\* and 100 when there are no gaps.
C22_Hotspots ==
    pc = "scored" =>
        /\ (Len(filtered) = 0 => score.comp.hotspots = FInt(100))
        /\ (Len(filtered) > 0 =>
               /\ score.comp.hotspots = FMul(FInt(100), FSub(FInt(1), NormalizedEntropy))
               /\ FLe(FInt(0), NormalizedEntropy) /\ FLe(NormalizedEntropy, FInt(1))
               /\ (Cardinality(OccupiedCells) <= 1 =>
                      NormalizedEntropy = FInt(1) /\ score.comp.hotspots = FInt(0))
               /\ (Cardinality(OccupiedCells) > 1 /\ EvenlySpread =>
                      NormalizedEntropy = FInt(0) /\ score.comp.hotspots = FInt(100)))

\* three gaps, two of them in one cell: the entropy is strictly inside (0, 1)
C22_Witness ==
    /\ pc = "scored"
    /\ Len(filtered) = 3
    /\ Cardinality(OccupiedCells) = 2
    /\ Strictly(score.comp.hotspots)

\* gaps spread evenly over two cells
C22_WitnessEven ==
    /\ pc = "scored"
    /\ Len(filtered) = 2
    /\ Cardinality(OccupiedCells) = 2
    /\ score.comp.hotspots = FInt(100)

\* exactly one gap
C22_WitnessOneGap ==
    /\ pc = "scored"
    /\ Len(filtered) = 1
    /\ score.comp.hotspots = FInt(0)

-----------------------------------------------------------------------------
(* build_common_blocks on series whose gaps start around the session edges: *)
(* the session table and the sessions score                                *)

MaxBatches == 2   \* batches of rows in the input

BatchRows == 11   \* rows of a long first batch

\* minutes of the day the first row of a batch falls on
SessSlots ==
    {0, 6 * 60 + 59, 7 * 60, 7 * 60 + 59, 8 * 60, 11 * 60 + 59, 12 * 60,
     15 * 60 + 59, 16 * 60, 20 * 60 + 40, 20 * 60 + 59, 21 * 60, 23 * 60 + 59}

\* Monday 2024-12-02
SessDay0 == DateTime(2024, 12, 2, 0, 0, 0)

\* the first instant at minute m of a day that lies more than gap after ts
NextAt(ts, m, gap) ==
    LET d0 == DayOf(ts) * SecPerDay + m * 60
    IN  IF d0 > ts + gap THEN d0
        ELSE IF d0 + SecPerDay > ts + gap THEN d0 + SecPerDay
        ELSE d0 + 2 * SecPerDay

\* batches the series was built from: a long first batch or single rows
Batches(rows) == IF Len(rows) >= BatchRows THEN Len(rows) - BatchRows + 1 ELSE Len(rows)

\* the caller appends k rows, two nominal spacings apart (each row but the
\* last of the series starts a gap)
AddGapRows ==
    /\ pc = "sess_input"
    /\ LET t == _read_runtime_timeframe(cfg_text)
       IN  \E m \in SessSlots, k \in (IF df = <<>> THEN {1, BatchRows} ELSE {1}) :
              /\ Batches(df) < MaxBatches
              /\ df' = df \o Run(IF df = <<>> THEN SessDay0 + m * 60
                                 ELSE NextAt(df[Len(df)].datetime_utc, m, Expect(t)),
                                 k, 2 * Expect(t), QuietBar)
    /\ UNCHANGED <<pc, ctx, cfg_text, year, tf, bars, bar_g, tagged, fx_wins, filtered, out, ret, cal_df, calm, score, weekly, req, cb>>

\* build_common_blocks when _load_calendar_df finds no calendar file
ScoreNoCalendar ==
    /\ pc = "sess_input"
    /\ LET t   == _read_runtime_timeframe(cfg_text)
           b   == ResampleFrame(df, t)
           g   == _bar_gaps(Stamps(b), t)
           fx  == FxWinsOrEmpty(year, cfg_text)
           wk  == _tag_explainable(g, cfg_text)
           tg  == HolidayTag(wk, fx)
           flt == Anomalous(tg)
       IN  /\ tf' = t
           /\ bars' = b
           /\ bar_g' = g
           /\ fx_wins' = fx
           /\ IF HolidayMaskRaises(wk, fx)
              THEN /\ tagged' = wk
                   /\ pc' = "raised"
                   /\ UNCHANGED <<filtered, cal_df, calm, out, score>>
              ELSE /\ tagged' = tg
                   /\ filtered' = flt
                   /\ cal_df' = NoCal
                   /\ calm' = _match_calendar_high(tg, NoCal, 60)
                   /\ out' = [CommonOut(flt) EXCEPT
                                 !.sessions = [k \in 1..Len(flt) |->
                                                  _session_label(flt[k].gap_start)]]
                   /\ score' = _score_tf(b, flt, t, NoCal)
                   /\ pc' = "scored"
    /\ UNCHANGED <<ctx, cfg_text, year, df, ret, weekly, req, cb>>

InitSess ==
    /\ pc = "sess_input"
    /\ cfg_text \in ScoreConfigs
    /\ year = 2024
    /\ Idle

NextSess == AddGapRows \/ ScoreNoCalendar

SpecSess == InitSess /\ [][NextSess]_vars

\* the session the claim assigns to a time of day, from its minute of the day
ClaimedSession(ts) ==
    LET h == MinuteOfDay(ts)
    IN  CASE 7 * 60 <= h /\ h < 8 * 60   -> "Asia-London overlap"
          [] 12 * 60 <= h /\ h < 16 * 60 -> "London-NY overlap"
          [] 16 * 60 <= h /\ h < 21 * 60 -> "NY"
          [] 8 * 60 <= h /\ h < 12 * 60  -> "London"
          [] 0 <= h /\ h < 7 * 60        -> "Asia"
          [] 21 * 60 <= h /\ h < 24 * 60 -> "Other"

OtherGaps == {k \in 1..Len(filtered) : ClaimedSession(filtered[k].gap_start) = "Other"}

\* C23: every gap start gets the one session label of its UTC time of day
\* (Asia-London overlap 7-8, London-NY overlap 12-16, NY 16-21, London 8-12,
\* Asia 0-7, Other 21-24); the sessions score is
\* 100*(1 - min(1, share_other/target)); and the labelling used for the score
\* agrees with the one of the session table.
C23_SessionLabels ==
    pc = "scored" =>
        /\ Len(out.sessions) = Len(filtered)
        /\ \A k \in 1..Len(filtered) :
              /\ _sess(filtered[k].gap_start) = ClaimedSession(filtered[k].gap_start)
              /\ out.sessions[k] = _sess(filtered[k].gap_start)
        /\ score.comp.sessions =
              FMul(FInt(100),
                   FSub(FInt(1),
                        FMin(FInt(1), FDiv(Share(OtherGaps, Len(filtered)), Pct(10)))))

\* eleven gaps of which only the last, at 21:00, is Other: the score is
\* strictly inside (0, 100)
C23_Witness ==
    /\ pc = "scored"
    /\ Len(filtered) = 11
    /\ Cardinality(OtherGaps) = 1
    /\ Strictly(score.comp.sessions)

\* gaps on both sides of the 7:00 edge, and every label in the table
C23_WitnessOverlap ==
    /\ pc = "scored"
    /\ \E i, k \in 1..Len(filtered) :
          /\ out.sessions[i] = "Asia"
          /\ MinuteOfDay(filtered[i].gap_start) = 6 * 60 + 59
          /\ out.sessions[k] = "Asia-London overlap"
          /\ MinuteOfDay(filtered[k].gap_start) = 7 * 60 + 1

C23_WitnessAllLabels ==
    /\ pc = "scored"
    /\ Range(out.sessions) =
          {"Asia", "Asia-London overlap", "London", "London-NY overlap", "NY", "Other"}

-----------------------------------------------------------------------------
(* _score_tf on a clean feed *)

\* no anomalous gap, no extreme-range bar, no calendar file
CleanFeed == Len(filtered) = 0 /\ score.ext = 0 /\ cal_df.none

CleanTotal(t) == CASE t = "M1" -> 82 [] t = "M5" -> 85 [] t = "H1" -> 88

\* C28: with zero anomalous gaps, no extreme-range bars and no calendar file
\* gap_mix is 40 and every other component is 100, so the total is
\* 100 - 60*w_gap_mix: 82 at M1, 85 at M5, 88 at H1, never 100.
C28_CleanFeedTotal ==
    (pc = "scored" /\ CleanFeed) =>
        /\ score.comp.gap_mix = FInt(40)
        /\ \A x \in Components \ {score.comp.gap_mix} : x = FInt(100)
        /\ score.comp.hotspots = FInt(100) /\ score.comp.extremes = FInt(100)
        /\ score.comp.monthly = FInt(100) /\ score.comp.sessions = FInt(100)
        /\ score.comp.calendar = FInt(100) /\ score.comp.completeness = FInt(100)
        /\ score.total = FSub(FInt(100), FMul(FInt(60), score.W.gap_mix))
        /\ score.total = FInt(CleanTotal(tf))
        /\ FLt(score.total, FInt(100))

\* a hundred evenly spaced M1 bars, then the weekend: the one gap is tagged
\* and not scored
C28_Witness ==
    /\ pc = "scored"
    /\ CleanFeed
    /\ tf = "M1"
    /\ Len(bars) > LongRun
    /\ Len(bar_g) = 1
    /\ tagged[1].reason = "weekend/closed-hours"
    /\ score.total = FInt(82)

\* the same at H1
C28_WitnessH1 ==
    /\ pc = "scored"
    /\ CleanFeed
    /\ tf = "H1"
    /\ Len(bar_g) = 1
    /\ tagged[1].reason = "weekend/closed-hours"
    /\ score.total = FInt(88)

-----------------------------------------------------------------------------
(* _weekly_windows_for_year on its own *)

WwYears == {2000, 2024, 2025}

\* tokens handed to the function: every weekday at midnight, 22:00 and
\* 23:59, a token with an hour no clock shows, and tokens the regex rejects
WwTokens ==
    {WdTok(wd, hm[1], hm[2]) :
        wd \in {"Mon", "Tue", "Wed", "Thu", "Fri", "Sat", "Sun"},
        hm \in {<<0, 0>>, <<22, 0>>, <<23, 59>>}}
      \cup {WdTok("Sun", 30, 0), WdTok("Friday", 22, 0), TextTok, EmptyTok}

CallWeekly ==
    /\ pc = "tokens"
    /\ \E st \in WwTokens, en \in WwTokens :
           weekly' = [start_tok |-> st, end_tok |-> en,
                      wins |-> _weekly_windows_for_year(year, st, en)]
    /\ pc' = "ww_done"
    /\ UNCHANGED <<ctx, cfg_text, year, df, tf, bars, bar_g, tagged, fx_wins, filtered, out, ret, cal_df, calm, score, req, cb>>

InitWw ==
    /\ pc = "tokens"
    /\ cfg_text = <<>>
    /\ year \in WwYears
    /\ Idle

NextWw == CallWeekly

SpecWw == InitWw /\ [][NextWw]_vars

\* the token parses
Parses(tok) == _parse_wd_hhmm(tok).ok

\* a token with a valid weekday, hour < 24 and minute < 60
ValidTok(tok) == Parses(tok) /\ tok.hh < 24 /\ tok.mm < 60

\* the instant is at the weekday and time of day the token names
AtToken(ts, tok) ==
    /\ Weekday(DayOf(ts)) = dmap(tok.wd)
    /\ MinuteOfDay(ts) = tok.hh * 60 + tok.mm
    /\ ts % 60 = 0

\* Monday 00:00 of the week of an instant
MondayOf(ts) == (DayOf(ts) - Weekday(DayOf(ts))) * SecPerDay

InWeekOf(ts, t) == MondayOf(t) <= ts /\ ts < MondayOf(t) + 7 * SecPerDay

FirstStep == DateTime(year - 1, 12, 25, 0, 0, 0)

\* the last 7-day step from Dec 25 of year-1 that lies before Jan 5 of year+1
LastStep ==
    LET stop == DateTime(year + 1, 1, 5, 0, 0, 0)
    IN  FirstStep + (((stop - 1 - FirstStep) \div (7 * SecPerDay)) * 7 * SecPerDay)

\* C29: for tokens with a valid weekday, hour < 24 and minute < 60 the
\* windows come in ascending order, their starts exactly 7 days apart, each
\* with start < end and at most 7 days long (an end that is not after the
\* start is moved forward by 7 days); the first lies in the Monday-based week
\* of Dec 25 of year-1, the last in the week of the last 7-day step before
\* Jan 5 of year+1.  If either token fails to parse the result is empty.
C29_WeeklyWindows ==
    pc = "ww_done" =>
        LET w == weekly.wins
            n == Len(w)
        IN  /\ (~Parses(weekly.start_tok) \/ ~Parses(weekly.end_tok)) => w = <<>>
            /\ (ValidTok(weekly.start_tok) /\ ValidTok(weekly.end_tok)) =>
                  /\ n > 0
                  /\ \A k \in 2..n : w[k][1] - w[k - 1][1] = 7 * SecPerDay
                  /\ \A k \in 1..n :
                        /\ w[k][1] < w[k][2]
                        /\ w[k][2] - w[k][1] <= 7 * SecPerDay
                        /\ AtToken(w[k][1], weekly.start_tok)
                        /\ AtToken(w[k][2], weekly.end_tok)
                  /\ InWeekOf(w[1][1], FirstStep)
                  /\ InWeekOf(w[n][1], LastStep)

\* Sunday 22:00 -> Friday 22:00: the end falls before the start in its week
\* and is moved to the next week
C29_Witness ==
    /\ pc = "ww_done"
    /\ weekly.start_tok = WdTok("Sun", 22, 0)
    /\ weekly.end_tok = WdTok("Fri", 22, 0)
    /\ Len(weekly.wins) >= 53
    /\ weekly.wins[1][2] - weekly.wins[1][1] = 5 * SecPerDay
    /\ ~InWeekOf(weekly.wins[1][2], FirstStep)

\* the same token twice: every window is exactly 7 days long
C29_WitnessFullWeek ==
    /\ pc = "ww_done"
    /\ weekly.start_tok = weekly.end_tok
    /\ ValidTok(weekly.start_tok)
    /\ weekly.wins[1][2] - weekly.wins[1][1] = 7 * SecPerDay

\* a token that does not parse
C29_WitnessUnparsed ==
    /\ pc = "ww_done"
    /\ weekly.start_tok = WdTok("Fri", 22, 0)
    /\ weekly.end_tok = WdTok("Friday", 22, 0)
    /\ weekly.wins = <<>>

-----------------------------------------------------------------------------
(* build_common_blocks on empty or missing inputs *)

\* C21: with empty or missing inputs the pipeline never raises and returns
\* neutral values: bars without any gap, an empty bar series and a missing
\* calendar each let build_common_blocks complete (no gaps: completeness
\* 100 and empty gap tables; no events: calendar 100).
C21_EmptyInputsComplete ==
    /\ pc # "raised"
    /\ (pc = "scored" /\ bar_g = <<>>) =>
          /\ filtered = <<>>
          /\ score.comp.completeness = FInt(100)
    /\ (pc = "scored" /\ Len(cal_df.ts) = 0) => score.comp.calendar = FInt(100)

\* the part the code meets: a run that gets past the holiday pass scores a
\* missing or empty calendar 100 and an empty list of anomalous gaps with
\* completeness 100 (kept to tell what part of C21 holds)
C21_NeutralWhenCompleted ==
    pc = "scored" =>
        /\ (filtered = <<>> => score.comp.completeness = FInt(100))
        /\ (Len(cal_df.ts) = 0 => score.comp.calendar = FInt(100))

\* the builder raises exactly when it reaches the holiday pass with holiday
\* windows and a gap frame without rows (an empty series or bars without a gap)
C21_RaisesOnGaplessBars ==
    pc # "score_input" => (pc = "raised" <=> (bar_g = <<>> /\ fx_wins # <<>>))

-----------------------------------------------------------------------------
(* build_monthly_context / build_quarterly_context *)

\* the monthly table: rows (bars) and anomalous gaps per month that has one
MonthlyTable(b, flt) ==
    LET mb(i)  == MonthOfDay(DayOf(b[i].datetime_utc))
        mg(k)  == MonthOfDay(DayOf(flt[k].gap_start))
        months == {mb(i) : i \in 1..Len(b)} \cup {mg(k) : k \in 1..Len(flt)}
    IN  [m \in months |->
            [Rows |-> Cardinality({i \in 1..Len(b) : mb(i) = m}),
             Gaps |-> Cardinality({k \in 1..Len(flt) : mg(k) = m})]]

\* df[df["datetime_utc"].dt.to_period("M").astype(str) == month]
MonthRows(rows, month) ==
    SelectSeq(rows, LAMBDA r : MonthOfDay(DayOf(r.datetime_utc)) = month)

\* [qs, qe): first instant of the quarter and of the next one
QuarterStart(y, q) == DateTime(y, 3 * (q - 1) + 1, 1, 0, 0, 0)
QuarterEnd(y, q) ==
    DateTime(y + (IF q = 4 THEN 1 ELSE 0), IF q = 4 THEN 1 ELSE 3 * (q - 1) + 4, 1, 0, 0, 0)

\* df[(df["datetime_utc"] >= qs) & (df["datetime_utc"] < qe)]
QuarterRows(rows, y, q) ==
    SelectSeq(rows, LAMBDA r : QuarterStart(y, q) <= r.datetime_utc
                                  /\ r.datetime_utc < QuarterEnd(y, q))

\* dfm if not dfm.empty else df
SliceOrAll(slice, rows) == IF slice # <<>> THEN slice ELSE rows

CtxConfigs ==
    { <<Hdr(0, "runtime"), KV(1, "timeframe", "M1")>>,
      <<Hdr(0, "runtime"), KV(1, "timeframe", "H1")>> }

\* first rows: the last minutes of March 2024 (end of the first quarter), the
\* last hour of April 2024
CtxAnchors == {DateTime(2024, 3, 31, 23, 58, 0), DateTime(2024, 4, 30, 23, 0, 0)}

\* steps between rows: one and two minutes, two hours, thirty days
CtxDeltas == {60, 120, 7200, 30 * SecPerDay}

\* months asked for, as year * 12 + month: March to June 2024
CtxMonths == {2024 * 12 + m : m \in 3..6}

AddCtxRow ==
    /\ pc = "ctx_input"
    /\ Len(df) < MaxRows
    /\ \E ts \in (IF df = <<>> THEN CtxAnchors
                  ELSE {df[Len(df)].datetime_utc + d : d \in CtxDeltas}) :
           df' = Append(df, Row(ts, QuietBar[1], QuietBar[2], QuietBar[3], QuietBar[4], QuietBar[5]))
    /\ UNCHANGED <<pc, ctx, cfg_text, year, tf, bars, bar_g, tagged, fx_wins, filtered, out, ret, cal_df, calm, score, weekly, req, cb>>

\* build_common_blocks(df, gaps, year) on the rows handed on, with no calendar
\* file: bars, gaps, tags, the anomalous gaps, the tables and the scorecard
ContextOf(kind, period, rows) ==
    /\ req' = [kind |-> kind, period |-> period, rows |-> rows]
    /\ ctx' = kind
    /\ tf' = _read_runtime_timeframe(cfg_text)
    /\ bars' = ResampleFrame(rows, tf')
    /\ bar_g' = _bar_gaps(Stamps(bars'), tf')
    /\ fx_wins' = FxWinsOrEmpty(year, cfg_text)
    /\ LET wk == _tag_explainable(bar_g', cfg_text)
       IN  IF HolidayMaskRaises(wk, fx_wins')
           THEN /\ tagged' = wk
                /\ filtered' = <<>>
                /\ out' = NoOut
                /\ score' = NoScore
                /\ pc' = "raised"
           ELSE /\ tagged' = HolidayTag(wk, fx_wins')
                /\ filtered' = Anomalous(tagged')
                /\ out' = [CommonOut(filtered') EXCEPT
                              !.sessions = [k \in 1..Len(filtered') |->
                                               _session_label(filtered'[k].gap_start)],
                              !.monthly = MonthlyTable(bars', filtered')]
                /\ score' = _score_tf(bars', filtered', tf', NoCal)
                /\ pc' = "ctx_done"

\* build_monthly_context(df, gaps, year, month)
BuildMonthly ==
    /\ pc = "ctx_input"
    /\ \E month \in CtxMonths : ContextOf("monthly", month, SliceOrAll(MonthRows(df, month), df))
    /\ UNCHANGED <<cfg_text, year, df, ret, cal_df, calm, weekly, cb>>

\* build_quarterly_context(df, gaps, year, q)
BuildQuarterly ==
    /\ pc = "ctx_input"
    /\ \E q \in 1..4 : ContextOf("quarterly", q, SliceOrAll(QuarterRows(df, year, q), df))
    /\ UNCHANGED <<cfg_text, year, df, ret, cal_df, calm, weekly, cb>>

InitCtx ==
    /\ pc = "ctx_input"
    /\ cfg_text \in CtxConfigs
    /\ year = 2024
    /\ Idle

NextCtx == AddCtxRow \/ BuildMonthly \/ BuildQuarterly

SpecCtx == InitCtx /\ [][NextCtx]_vars

\* the rows of df whose timestamp lies in the requested period
PeriodRows ==
    IF req.kind = "monthly"
    THEN SelectSeq(df, LAMBDA r : MonthOfDay(DayOf(r.datetime_utc)) = req.period)
    ELSE SelectSeq(df, LAMBDA r : QuarterStart(year, req.period) <= r.datetime_utc
                                     /\ r.datetime_utc < QuarterEnd(year, req.period))

Asked == req.kind \in {"monthly", "quarterly"}

\* C30: the monthly and the quarterly context are computed only from the
\* rows whose timestamp lies in the requested month, or in the quarter's
\* range [quarter start, next quarter start); when the period has no rows
\* the result reports zero rows and zero gaps, never statistics of rows
\* outside the period.
C30_ContextOfRequestedPeriod ==
    Asked =>
        /\ req.rows = PeriodRows
        /\ bars = ResampleFrame(PeriodRows, tf)
        /\ (PeriodRows = <<>> =>
               /\ bars = <<>>
               /\ bar_g = <<>>
               /\ (pc = "ctx_done" => DOMAIN out.monthly = {}))

\* the part the code meets: a period that has rows is reported from its own
\* rows (kept to tell what part of C30 holds)
C30_PeriodWithRows ==
    (Asked /\ PeriodRows # <<>>) =>
        /\ req.rows = PeriodRows
        /\ bars = ResampleFrame(PeriodRows, tf)
        /\ (pc = "ctx_done" => \A m \in DOMAIN out.monthly :
                                  out.monthly[m].Rows <= Len(PeriodRows))

\* a period without rows is reported from the whole series
C30_EmptyPeriodReportsAllRows ==
    (Asked /\ PeriodRows = <<>>) => req.rows = df


\* reached: a month without rows was asked for and the context was completed
\* from rows of other months
C30_WitnessEmptyPeriod ==
    Asked /\ PeriodRows = <<>> /\ pc = "ctx_done" /\ DOMAIN out.monthly # {}

-----------------------------------------------------------------------------
(* calendar builder: core.py *)

MaxCsvRows == 2   \* rows of the input CSV

\* str(x).strip().lower() of an importance cell; read_csv(dtype=str) turns a
\* blank cell into NaN, whose str() is "nan"
ImportanceText(cell) ==
    CASE cell = "High"    -> "high"
      [] cell = "low"     -> "low"
      [] cell = ""        -> "nan"
      [] OTHER            -> cell

\* re.search(notes_key \s*=\s* (high|medium), notes, re.I), lowered; "" when
\* there is no match
NotesOverride(notes) ==
    CASE notes = "impact_override=medium" -> "medium"
      [] notes = "Impact_Override = HIGH" -> "high"
      [] OTHER                            -> ""

\* rx.search(title) for the title patterns of the configurations, re.I
TitleSearch(rx, title) ==
    \/ rx = "cpi" /\ title \in {"CPI", "Core CPI"}
    \/ rx = "pmi" /\ title \in {"PMI"}

NoPattern == "None"

\* _compile_importance_rules: items without a `set` value are skipped
_compile_importance_rules(cfg) ==
    SelectSeq(cfg.items, LAMBDA it : it.set # "")

RECURSIVE FirstRule(_, _, _, _)
\* rules: first match wins
FirstRule(rules, cc, title, imp) ==
    IF rules = <<>> THEN imp
    ELSE LET it == Head(rules)
         IN  IF it.country # "" /\ it.country # cc
             THEN FirstRule(Tail(rules), cc, title, imp)
             ELSE IF it.title_re # NoPattern /\ ~ TitleSearch(it.title_re, title)
             THEN FirstRule(Tail(rules), cc, title, imp)
             ELSE it.set

\* derive(row): notes override, then the rules, then the row's own value
derive(row, cfg) ==
    IF NotesOverride(row.notes) # ""
    THEN NotesOverride(row.notes)
    ELSE FirstRule(_compile_importance_rules(cfg), row.country, row.title,
                   ImportanceText(row.importance))

\* set(cfg.get("include_impacts") or ["high", "medium"])
AllowedOf(cfg) ==
    IF cfg.include_impacts = {} THEN {"high", "medium"} ELSE cfg.include_impacts

\* _apply_importance_rules: derive, then clamp to allowed; `first` is
\* next(iter(allowed)), an element of a set of strings whose iteration order
\* changes with the process's hash seed
_apply_importance_rules(csv, cfg, first) ==
    [i \in 1..Len(csv) |->
        [csv[i] EXCEPT !.importance =
            IF derive(csv[i], cfg) \in AllowedOf(cfg) THEN derive(csv[i], cfg) ELSE first]]

\* datetime.strptime(s, '%Y-%m-%d') succeeds
_is_date_ok(s) == s \in {"2024-01-15", "2025-03-14", "2025-08-01"}

\* the mask of the required fields: none of them blank
MaskReq(r) == r.date_local # "" /\ r.country # "" /\ r.importance # "" /\ r.title # ""

MaskImp(r) == ImportanceText(r.importance) \in {"medium", "high"}

\* _drop_invalid_rows(df, required)
_drop_invalid_rows(rows) ==
    LET low == [i \in 1..Len(rows) |->
                   [rows[i] EXCEPT !.importance = ImportanceText(rows[i].importance)]]
        keep(r) == MaskImp(r) /\ _is_date_ok(r.date_local) /\ MaskReq(r)
        kept == SelectSeq(low, keep)
    IN  [out |-> kept,
         stats |-> [total_rows |-> Len(rows),
                    kept_rows |-> Len(kept),
                    bad_importance_or_low |->
                        Cardinality({i \in 1..Len(low) : ~ MaskImp(low[i])}),
                    bad_date_format |->
                        Cardinality({i \in 1..Len(low) : ~ _is_date_ok(low[i].date_local)}),
                    missing_required_fields |->
                        Cardinality({i \in 1..Len(low) : ~ MaskReq(low[i])})]]

\* date_local.startswith(f"{year}-")
StartsWithYear(s, y) ==
    \/ y = 2024 /\ s = "2024-01-15"
    \/ y = 2025 /\ s \in {"2025-03-14", "2025-08-01"}

\* for the year 2025 only the rows with date_local <= "2025-07-31" stay
YearRows(rows, y) ==
    SelectSeq(rows, LAMBDA r : /\ StartsWithYear(r.date_local, y)
                               /\ (y = 2025 => r.date_local # "2025-08-01"))

\* the deduplication key: date, country in upper case, canonical title
DedupKey(r) == <<r.date_local, r.country, r.title>>

\* drop_duplicates('__dedup_key', keep='first')
DropDuplicates(rows) ==
    LET F[i \in 0..Len(rows)] ==
            IF i = 0 THEN <<>>
            ELSE IF \E j \in 1..(i - 1) : DedupKey(rows[j]) = DedupKey(rows[i])
                 THEN F[i - 1]
                 ELSE Append(F[i - 1], rows[i])
    IN  F[Len(rows)]

\* the rows stage_validate and stage_build keep of the input CSV (no
\* exclusions are configured)
KeptRows(csv, cfg, first, y) ==
    DropDuplicates(YearRows(_drop_invalid_rows(_apply_importance_rules(csv, cfg, first)).out, y))

NoStats == [total_rows |-> 0, kept_rows |-> 0, bad_importance_or_low |-> 0,
            bad_date_format |-> 0, missing_required_fields |-> 0]

\* config.yaml: no rules; rules (one without a `set`, which is skipped);
\* include_impacts that lists low as well
CbConfigs ==
    { [items |-> <<>>, include_impacts |-> {}],
      [items |-> << [country |-> "", title_re |-> NoPattern, set |-> ""],
                    [country |-> "US", title_re |-> "cpi", set |-> "high"],
                    [country |-> "", title_re |-> "pmi", set |-> "medium"],
                    [country |-> "EA", title_re |-> NoPattern, set |-> "low"] >>,
       include_impacts |-> {}],
      [items |-> <<>>, include_impacts |-> {"high", "medium", "low"}] }

CbYears == {2024, 2025}

\* rows of manual_events.csv
CsvRows ==
    [date_local : {"2024-01-15", "2025-08-01", "15.01.2024"},
     country    : {"US", "EA"},
     title      : {"CPI"},
     importance : {"High", "low", ""},
     notes      : {"", "impact_override=medium"}]

\* one more row in the input CSV before the command is started
AddCsvRow ==
    /\ pc = "csv"
    /\ cb.exists
    /\ Len(cb.csv) < MaxCsvRows
    /\ \E r \in CsvRows : cb' = [cb EXCEPT !.csv = Append(@, r)]
    /\ UNCHANGED <<pc, ctx, cfg_text, year, df, tf, bars, bar_g, tagged, fx_wins, filtered, out, ret, cal_df, calm, score, weekly, req>>

AnalyzerUnchanged ==
    UNCHANGED <<ctx, cfg_text, year, df, tf, bars, bar_g, tagged, fx_wins, filtered, out, ret, cal_df, calm, score, weekly, req>>

\* cmd_run up to the first stage: the input CSV must exist
cmd_run ==
    /\ pc = "csv"
    /\ pc' = IF cb.exists THEN "validate" ELSE "exit"
    /\ UNCHANGED cb
    /\ AnalyzerUnchanged

\* stage_validate(year, infile): the snapshot and the validation report
stage_validate ==
    /\ pc = "validate"
    /\ \E first \in AllowedOf(cb.cfg) :
          cb' = [cb EXCEPT
                    !.first = first,
                    !.validated = KeptRows(cb.csv, cb.cfg, first, year),
                    !.stats = _drop_invalid_rows(_apply_importance_rules(cb.csv, cb.cfg, first)).stats,
                    !.log = @ \o <<"validated", "validation_report">>]
    /\ pc' = "build"
    /\ AnalyzerUnchanged

\* stage_build(year, infile, calendar): the calendar; the set of allowed
\* values is built again in the same process, so it iterates as before
stage_build ==
    /\ pc = "build"
    /\ cb' = [cb EXCEPT
                 !.calendar = KeptRows(cb.csv, cb.cfg, cb.first, year),
                 !.log = Append(@, "calendar")]
    /\ pc' = "state"
    /\ AnalyzerUnchanged

\* update_state(year, calendar, report): the year's entry of state.json
update_state ==
    /\ pc = "state"
    /\ cb' = [cb EXCEPT !.log = Append(@, "state.json")]
    /\ pc' = "report"
    /\ AnalyzerUnchanged

\* stage_report(year, calendar, report)
stage_report ==
    /\ pc = "report"
    /\ cb' = [cb EXCEPT !.log = Append(@, "year_report")]
    /\ pc' = "manifest"
    /\ AnalyzerUnchanged

\* faulty variant: the bundle is made whether or not --bundle was given
AfterManifest_always(bundle) == "bundle"

\* if getattr(args, "bundle", False): cmd_bundle(...)
AfterManifest(bundle) == IF bundle THEN "bundle" ELSE "done"

\* write_manifest(year, [calendar, report, state.json, config.yaml])
write_manifest ==
    /\ pc = "manifest"
    /\ cb' = [cb EXCEPT !.log = Append(@, "manifest")]
    /\ pc' = AfterManifest(cb.bundle)
    /\ AnalyzerUnchanged

\* cmd_bundle: the manifest once more, then the bundle
cmd_bundle ==
    /\ pc = "bundle"
    /\ cb' = [cb EXCEPT !.log = @ \o <<"manifest", "bundle">>]
    /\ pc' = "done"
    /\ AnalyzerUnchanged

\* cmd_run catches nothing: an exception in a stage (an unreadable file, a
\* full disk) ends the command where it is
StageRaises ==
    /\ pc \in {"validate", "build", "state", "report", "manifest", "bundle"}
    /\ pc' = "raised"
    /\ UNCHANGED cb
    /\ AnalyzerUnchanged

InitCb ==
    /\ pc = "csv"
    /\ cfg_text = <<>>
    /\ year \in CbYears
    /\ AnalyzerIdle
    /\ \E e \in BOOLEAN, b \in BOOLEAN, c \in CbConfigs :
          cb = [exists |-> e, bundle |-> b, cfg |-> c, csv |-> <<>>, first |-> "",
                validated |-> <<>>, stats |-> NoStats, calendar |-> <<>>, log |-> <<>>]

NextCb ==
    \/ AddCsvRow
    \/ cmd_run
    \/ stage_validate
    \/ stage_build
    \/ update_state
    \/ stage_report
    \/ write_manifest
    \/ cmd_bundle
    \/ StageRaises

SpecCb == InitCb /\ [][NextCb]_vars


\* the files of a complete run with --bundle, in the order they are written
FullOrder ==
    <<"validated", "validation_report", "calendar", "state.json", "year_report",
      "manifest", "manifest", "bundle">>

\* the same without the bundle
RunOrder == SubSeq(FullOrder, 1, 6)

IsPrefix(a, b) == Len(a) <= Len(b) /\ SubSeq(b, 1, Len(a)) = a

Written(name) == \E i \in 1..Len(cb.log) : cb.log[i] = name

\* C24: the run command executes its stages in the order validate -> build
\* -> report; the bundle is produced only when --bundle is given and only
\* after the report and the manifest have been written; when the input CSV
\* does not exist the command exits before any stage runs and before any
\* artifact or state.json entry is written.
C24_RunStagesInOrder ==
    /\ IsPrefix(cb.log, FullOrder)
    /\ (Written("bundle") => cb.bundle /\ Written("year_report") /\ Written("manifest"))
    /\ (Len(cb.log) > Len(RunOrder) => cb.bundle)
    /\ (pc = "done" => cb.log = IF cb.bundle THEN FullOrder ELSE RunOrder)
    /\ (pc = "bundle" => cb.log = RunOrder)
    /\ (pc = "exit" => ~ cb.exists)
    /\ ((~ cb.exists /\ pc # "csv") => (pc = "exit" /\ cb.log = <<>>))

\* reached: a run with --bundle over a CSV with rows has written everything
C24_Witness ==
    pc = "done" /\ cb.bundle /\ cb.csv # <<>> /\ cb.log = FullOrder

\* reached: a run without --bundle has ended after the manifest
C24_WitnessNoBundle ==
    pc = "done" /\ ~ cb.bundle /\ cb.log = RunOrder

\* reached: the input CSV is missing and the command has exited
C24_WitnessMissingInput ==
    pc = "exit" /\ ~ cb.exists /\ cb.log = <<>>

\* the rows the claim lets through: importance as derived, rows whose derived
\* importance is not medium or high dropped
ClaimedRows ==
    LET derived == [i \in 1..Len(cb.csv) |->
                       [cb.csv[i] EXCEPT !.importance = derive(cb.csv[i], cb.cfg)]]
        keep(r) == /\ r.importance \in {"medium", "high"}
                   /\ _is_date_ok(r.date_local)
                   /\ MaskReq(r)
    IN  DropDuplicates(YearRows(SelectSeq(derived, keep), year))

\* the rows the claim counts under bad_importance_or_low
ClaimedBad ==
    Cardinality({i \in 1..Len(cb.csv) : derive(cb.csv[i], cb.cfg) \notin {"medium", "high"}})

AfterValidate == Written("validation_report")

AfterBuild == Written("calendar")

\* C25: in stage_validate and stage_build the importance of a row is the
\* notes override, else the set value of the first matching rule, else the
\* row's own value; every row whose resulting importance is not medium or
\* high (low, blank) is dropped from the output and counted under
\* bad_importance_or_low; the importance written for a kept row is a
\* function of the row and the configuration.
C25_ImportanceDerivedThenDropped ==
    /\ (AfterValidate =>
           /\ cb.validated = ClaimedRows
           /\ cb.stats.bad_importance_or_low = ClaimedBad)
    /\ (AfterBuild => cb.calendar = ClaimedRows)

\* the part the code meets: when every derived importance is among the
\* allowed values of the configuration nothing is clamped, and the rows are
\* derived, dropped and counted as C25 says
C25_HoldsWhenNothingClamped ==
    (\A i \in 1..Len(cb.csv) : derive(cb.csv[i], cb.cfg) \in AllowedOf(cb.cfg)) =>
        C25_ImportanceDerivedThenDropped

\* with the default allowed set no row is ever counted under
\* bad_importance_or_low: the clamp has replaced every other value before
\* _drop_invalid_rows looks at it
C25_DefaultNeverCounts ==
    (AfterValidate /\ cb.cfg.include_impacts = {}) => cb.stats.bad_importance_or_low = 0

LowRow ==
    [date_local |-> "2024-01-15", country |-> "US", title |-> "CPI",
     importance |-> "low", notes |-> ""]

\* reached with the same input and configuration: the low row is written as
\* high in one run and as medium in another
C25_WitnessLowWrittenHigh ==
    /\ AfterBuild /\ year = 2024 /\ cb.cfg.items = <<>> /\ cb.cfg.include_impacts = {}
    /\ cb.csv = <<LowRow>>
    /\ cb.calendar = <<[LowRow EXCEPT !.importance = "high"]>>

C25_WitnessLowWrittenMedium ==
    /\ AfterBuild /\ year = 2024 /\ cb.cfg.items = <<>> /\ cb.cfg.include_impacts = {}
    /\ cb.csv = <<LowRow>>
    /\ cb.calendar = <<[LowRow EXCEPT !.importance = "medium"]>>

====
